---- MODULE Spec2Model ----
(***************************************************************************)
(* Model of go-port-scanner's scan core: RunScan and ScanPorts             *)
(* (src/scanner.go), with the service table of src/models.go.              *)
(*                                                                         *)
(* One RunScan call is modelled.  The main goroutine runs RunScan and,     *)
(* inside it, ScanPorts: the dispatch loop, the spawn of the closer        *)
(* goroutine, the collector loop, the sort and the return.  Every port of  *)
(* the range has a worker goroutine; the closer goroutine waits on the     *)
(* WaitGroup and closes the results channel.  Each action is one step of   *)
(* one goroutine at the granularity of its channel, mutex, WaitGroup and   *)
(* network operations.                                                     *)
(***************************************************************************)
EXTENDS Integers, Sequences, FiniteSets, TLC

(* ------------------------------ bounds -------------------------------- *)

\* Largest number of ports in a scanned range.
MaxRange == 3

\* Largest MaxConcurrent a request asks for (0 stands for "unset").
MaxConc == 2

\* Lowest port of the modelled port window.
FirstPort == 22

\* The modelled window of ports: one port more than the largest range, so
\* that every range has a port outside it.
PortUniverse == FirstPort .. (FirstPort + MaxRange)

(* --------------------------- program data ----------------------------- *)

\* models.go: var CommonPorts
CommonPorts ==
    (20 :> "FTP-data") @@ (21 :> "FTP") @@ (22 :> "SSH") @@ (23 :> "Telnet") @@
    (25 :> "SMTP") @@ (53 :> "DNS") @@ (80 :> "HTTP") @@ (110 :> "POP3") @@
    (143 :> "IMAP") @@ (443 :> "HTTPS") @@ (445 :> "SMB") @@ (3306 :> "MySQL") @@
    (3389 :> "RDP") @@ (5432 :> "PostgreSQL") @@ (8080 :> "HTTP-Alt") @@
    (8443 :> "HTTPS-Alt")

\* RunScan: the default of a non-positive MaxConcurrent.
DefaultMaxConcurrent == 100

\* RunScan: the default of a non-positive TimeoutMs.
DefaultTimeoutMs == 500

\* The most signals the environment raises in web mode.
MaxSignals == 1

\* The most requests sent to /shutdown.
MaxShutdownRequests == 1

\* A positive TimeoutMs a request may carry.
SomeTimeoutMs == 250

\* Mutant of ServiceOf: the "unknown" default left out, so a port absent
\* from the table gets the map's zero value.
ServiceOfNoDefault(p) == IF p \in DOMAIN CommonPorts THEN CommonPorts[p] ELSE ""

\* scanner.go:50-53: the service name of a port, "unknown" when the table
\* has no entry for it.
ServiceOf(p) == IF p \in DOMAIN CommonPorts THEN CommonPorts[p] ELSE "unknown"

\* Mutant of PortInfo: the table lookup skipped, every record tagged
\* "unknown".
PortInfoUntagged(p) == [Port |-> p, Service |-> "unknown", State |-> "open"]

\* scanner.go:54: the record a worker publishes for an open port.
PortInfo(p) == [Port |-> p, Service |-> ServiceOf(p), State |-> "open"]

(* ------------------------------- state -------------------------------- *)

VARIABLES
    req,            \* RunScan's request: StartPort, EndPort, MaxConcurrent, TimeoutMs
    verbose,        \* RunScan's / ScanPorts' verbose flag
    reachable,      \* environment: the ports of the host that accept a connection
    pc,             \* position of the main goroutine (RunScan and ScanPorts)
    startPort, endPort, maxConcurrent, timeout,   \* ScanPorts' parameters
    totalPorts,     \* ScanPorts: endPort - startPort + 1
    port,           \* ScanPorts: the dispatch loop's variable
    results,        \* buffered channel of PortInfo, capacity totalPorts
    resultsClosed,  \* whether close(results) has run
    semaphore,      \* number of tokens in the semaphore channel
    wg,             \* the WaitGroup's counter
    scanProgress,   \* progress counter
    progressMutex,  \* 0 when unlocked, else the port of the worker holding it
    loaded,         \* each worker's read of scanProgress for scanProgress++
    wpc,            \* position of each port's worker goroutine
    err,            \* each worker's dial result: "unset", "nil" or "fail"
    conns,          \* ports whose worker holds an open connection
    cpc,            \* position of the closer goroutine
    openPorts,      \* ScanPorts: the collected (then sorted) records
    response,       \* RunScan's return value, NoResponse until it returns
    stdout,         \* lines printed so far
    attempts,       \* history: number of DialTimeout calls made per port
    slotHeld,       \* history: ports whose slot was acquired and not yet released
    received,       \* history: the ports of the records in the order collected
    closes,         \* history: number of close(results) calls
    caller,         \* who calls RunScan: "none" (a direct call), "cli" or "http"
    method,         \* /scan handler: the method of the HTTP request
    bodyOK,         \* /scan handler: whether the body decodes into a ScanRequest
    jsonOutput,     \* CLI: the -json flag
    quiet,          \* CLI: the -quiet flag
    web,            \* web mode: AddWebInterface, its server, handlers and goroutines
    reply,          \* what the calling layer has written or done, NoReply before
    other           \* web mode: the locals of a second /scan handler, NoOther without

vars == <<req, verbose, reachable, pc, startPort, endPort, maxConcurrent, timeout,
          totalPorts, port, results, resultsClosed, semaphore, wg, scanProgress,
          progressMutex, loaded, wpc, err, conns, cpc, openPorts, response, stdout,
          attempts, slotHeld, received, closes,
          caller, method, bodyOK, jsonOutput, quiet, web, reply, other>>

\* The value of `web` outside web mode.  main: the position of
\* AddWebInterface; listener: the goroutine running ListenAndServe; stop:
\* the number of signals buffered in the stop channel; signals: how many
\* signals the environment has raised; delivered: whether one was relayed
\* to the stop channel; sreq, smethod, sreqs: the /shutdown handler's
\* position, the method of its request and the number of requests so far;
\* answers: what each /shutdown request was answered; sd: the position of
\* the goroutine each /shutdown request spawned; shutdowns: who has called
\* server.Shutdown; forced: whose call ended at its deadline; exit: the
\* process's exit status, "running" before; duringScan, spawnedThen
\* (history): whether ScanPorts was running when the first signal was
\* delivered, and the ports whose worker had been started by then.
WebOff ==
    [main |-> "off", listener |-> "off", stop |-> 0, signals |-> 0,
     delivered |-> FALSE, sreq |-> "none", smethod |-> "POST", sreqs |-> 0,
     answers |-> [i \in 1 .. MaxShutdownRequests |-> "none"],
     sd |-> [i \in 1 .. MaxShutdownRequests |-> "none"],
     shutdowns |-> {}, forced |-> {}, exit |-> "running",
     duringScan |-> FALSE, spawnedThen |-> {}]

\* The value of `reply` while the calling layer has answered nothing.
NoReply == [Kind |-> "none"]

\* No second handler is running.
NoOther == [id |-> 0]

\* The value of `response` while RunScan has not returned.
NoResponse == [Pending |-> TRUE]

\* Hosts, one of each kind ValidateScanRequest tells apart: the empty
\* string, an IP literal, a string that is neither an IP literal nor a
\* well-formed hostname, a well-formed hostname that does not resolve, and
\* one that does.
EmptyHost == ""
IPHost == "192.0.2.7"
MalformedHost == "not a host"
UnresolvedHost == "nohost.example"
ResolvedHost == "scanme.example"
Hosts == {EmptyHost, IPHost, MalformedHost, UnresolvedHost, ResolvedHost}

\* The requests a validated caller hands to RunScan: a range of at most
\* MaxRange ports that starts at the window's first or second port, so that
\* every range leaves a port of the window outside.  MaxConcurrent and
\* TimeoutMs are each unset (0) or set; the timeout steers no step, so only
\* a request with MaxConcurrent 1 carries either timeout: one with the limit
\* unset has the timeout unset, one with a limit above 1 has it set.
Requests ==
    { r \in [Host : {IPHost},
             StartPort : {FirstPort, FirstPort + 1}, EndPort : PortUniverse,
             MaxConcurrent : 0 .. MaxConc,
             TimeoutMs : {0, SomeTimeoutMs}] :
        /\ r.StartPort <= r.EndPort
        /\ r.EndPort <= FirstPort + MaxRange - 1
        /\ (r.MaxConcurrent # 1 =>
               (r.TimeoutMs = 0) = (r.MaxConcurrent = 0)) }

Init ==
    /\ req \in Requests
    /\ verbose \in BOOLEAN
    /\ reachable \in SUBSET (req.StartPort .. req.EndPort)
    /\ pc = "run_scan"
    /\ startPort = 0 /\ endPort = 0 /\ maxConcurrent = 0 /\ timeout = 0
    /\ totalPorts = 0
    /\ port = 0
    /\ results = <<>>
    /\ resultsClosed = FALSE
    /\ semaphore = 0
    /\ wg = 0
    /\ scanProgress = 0
    /\ progressMutex = 0
    /\ loaded = [p \in PortUniverse |-> 0]
    /\ wpc = [p \in PortUniverse |-> "idle"]
    /\ err = [p \in PortUniverse |-> "unset"]
    /\ conns = {}
    /\ cpc = "idle"
    /\ openPorts = <<>>
    /\ response = NoResponse
    /\ stdout = <<>>
    /\ attempts = [p \in PortUniverse |-> 0]
    /\ slotHeld = {}
    /\ received = <<>>
    /\ closes = 0
    /\ caller = "none"
    /\ method = "POST" /\ bodyOK = TRUE /\ jsonOutput = FALSE /\ quiet = FALSE
    /\ reply = NoReply
    /\ web = WebOff
    /\ other = NoOther

(* ---------------------- groups of variables -------------------------- *)

inputs == <<req, verbose, reachable, other>>
params == <<startPort, endPort, maxConcurrent, timeout, totalPorts>>
chans == <<results, resultsClosed, semaphore, wg>>
progress == <<scanProgress, progressMutex, loaded>>
workers == <<wpc, err, conns>>
history == <<attempts, slotHeld, received, closes>>
callerState == <<caller, method, bodyOK, jsonOutput, quiet, web, reply>>

(* ----------------------------- helpers -------------------------------- *)

\* scanner.go:83-86: MaxConcurrent with its default.
EffectiveMaxConcurrent(r) ==
    IF r.MaxConcurrent <= 0 THEN DefaultMaxConcurrent ELSE r.MaxConcurrent

\* Mutant of EffectiveTimeoutMs: only the zero value gets the default, a
\* negative one is passed on.
EffectiveTimeoutMsZeroOnly(r) ==
    IF r.TimeoutMs = 0 THEN DefaultTimeoutMs ELSE r.TimeoutMs

\* scanner.go:88-91: TimeoutMs with its default.
EffectiveTimeoutMs(r) ==
    IF r.TimeoutMs <= 0 THEN DefaultTimeoutMs ELSE r.TimeoutMs

\* Mutant of SemaphoreCap: the semaphore made one slot too large.
SemaphoreCapOffByOne == maxConcurrent + 1

\* Mutant of SemaphoreCap: the semaphore made with a fixed capacity of one
\* slot, whatever maxConcurrent is.
SemaphoreCapOne == IF maxConcurrent >= 1 THEN 1 ELSE 0

\* scanner.go:17: the capacity of the semaphore channel.
SemaphoreCap == maxConcurrent

\* Mutant of ResultsCap: the results channel sized like the semaphore.
ResultsCapLikeSemaphore == maxConcurrent

\* scanner.go:16: the capacity of the results channel.
ResultsCap == totalPorts

\* Mutant of InsertByPort: the comparison of the sort reversed.
RECURSIVE InsertByPortReversed(_, _)
InsertByPortReversed(s, x) ==
    IF s = <<>> THEN <<x>>
    ELSE IF x.Port > Head(s).Port THEN <<x>> \o s
    ELSE <<Head(s)>> \o InsertByPortReversed(Tail(s), x)

\* scanner.go:74-76: sort.Slice with less(i, j) = Port[i] < Port[j], as an
\* insertion sort.
RECURSIVE InsertByPort(_, _)
InsertByPort(s, x) ==
    IF s = <<>> THEN <<x>>
    ELSE IF x.Port < Head(s).Port THEN <<x>> \o s
    ELSE <<Head(s)>> \o InsertByPort(Tail(s), x)

\* Mutant of SortByPort: the sort left out.
NoSort(s) == s

RECURSIVE SortByPort(_)
SortByPort(s) ==
    IF s = <<>> THEN <<>>
    ELSE InsertByPort(SortByPort(SubSeq(s, 1, Len(s) - 1)), s[Len(s)])

\* Mutant of RangeSize: the "+ 1" of the inclusive range forgotten.
RangeSizeOffByOne(r) == r.EndPort - r.StartPort

\* scanner.go:96: RunScan's own count of the ports of the request.
RangeSize(r) == r.EndPort - r.StartPort + 1

\* Mutant of LoopContinues: the loop's test made strict.
LoopContinuesStrict(q) == q < endPort

\* scanner.go:28: the dispatch loop's test, port <= endPort.
LoopContinues(q) == q <= endPort

\* Mutant of ReportsProgress: the line printed at every hundredth port
\* only, the "|| scanProgress == totalPorts" left out.
ReportsProgressEveryHundred(n) == n % 100 = 0

\* scanner.go:42: whether the progress line is printed at count n.
ReportsProgress(n) == n % 100 = 0 \/ n = totalPorts

(* --------------------- main goroutine: RunScan ------------------------ *)

\* scanner.go:82-94: RunScan defaults the parameters and calls ScanPorts.
RunScanCall ==
    /\ pc = "run_scan"
    /\ maxConcurrent' = EffectiveMaxConcurrent(req)
    /\ timeout' = EffectiveTimeoutMs(req)
    /\ startPort' = req.StartPort
    /\ endPort' = req.EndPort
    /\ pc' = "scan_start"
    /\ UNCHANGED <<inputs, callerState, totalPorts, port, chans, progress, workers, cpc,
                   openPorts, response, stdout, history>>

\* scanner.go:14-28: ScanPorts makes its channels, prints the start line in
\* verbose mode and enters the dispatch loop.
ScanStart ==
    /\ pc = "scan_start"
    /\ totalPorts' = endPort - startPort + 1
    /\ results' = <<>>
    /\ resultsClosed' = FALSE
    /\ semaphore' = 0
    /\ wg' = 0
    /\ scanProgress' = 0
    /\ progressMutex' = 0
    /\ UNCHANGED loaded
    /\ stdout' = IF verbose
                 THEN Append(stdout, <<"start", endPort - startPort + 1>>)
                 ELSE stdout
    /\ port' = startPort
    /\ pc' = IF LoopContinues(startPort) THEN "wg_add" ELSE "go_closer"
    /\ UNCHANGED <<inputs, callerState, startPort, endPort, maxConcurrent, timeout, workers,
                   cpc, openPorts, response, history>>

\* Mutant of WgAdd: the wg.Add(1) left out of the loop.
WgAddSkipped ==
    /\ pc = "wg_add"
    /\ wg' = wg
    /\ pc' = "acquire"
    /\ UNCHANGED <<inputs, callerState, params, port, results, resultsClosed, semaphore,
                   progress, workers, cpc, openPorts, response, stdout, history>>

\* scanner.go:29: wg.Add(1).
WgAdd ==
    /\ pc = "wg_add"
    /\ wg' = wg + 1
    /\ pc' = "acquire"
    /\ UNCHANGED <<inputs, callerState, params, port, results, resultsClosed, semaphore,
                   progress, workers, cpc, openPorts, response, stdout, history>>

\* Mutant of Acquire: a send that does not wait for a free slot (a select
\* with a default case), so the dispatcher goes on when the channel is full.
AcquireNonBlocking ==
    /\ pc = "acquire"
    /\ semaphore' = IF semaphore < SemaphoreCap THEN semaphore + 1 ELSE semaphore
    /\ slotHeld' = slotHeld \cup {port}
    /\ pc' = "go_worker"
    /\ UNCHANGED <<inputs, callerState, params, port, results, resultsClosed, wg, progress,
                   workers, cpc, openPorts, response, stdout, attempts, received,
                   closes>>

\* scanner.go:30: semaphore <- struct{}{}, blocking while the channel is full.
Acquire ==
    /\ pc = "acquire"
    /\ semaphore < SemaphoreCap
    /\ semaphore' = semaphore + 1
    /\ slotHeld' = slotHeld \cup {port}
    /\ pc' = "go_worker"
    /\ UNCHANGED <<inputs, callerState, params, port, results, resultsClosed, wg, progress,
                   workers, cpc, openPorts, response, stdout, attempts, received,
                   closes>>

\* Mutant of GoWorker: the range walked from its upper end, the worker
\* started being the one of the mirrored port.
GoWorkerDescending ==
    /\ pc = "go_worker"
    /\ wpc' = [wpc EXCEPT ![endPort - (port - startPort)] = "dial"]
    /\ port' = port + 1
    /\ pc' = IF LoopContinues(port + 1) THEN "wg_add" ELSE "go_closer"
    /\ UNCHANGED <<inputs, callerState, params, chans, progress, err, conns, cpc, openPorts,
                   response, stdout, history>>

\* scanner.go:31,57,28: go func(p){...}(port); port++; loop test.
GoWorker ==
    /\ pc = "go_worker"
    /\ wpc' = [wpc EXCEPT ![port] = "dial"]
    /\ port' = port + 1
    /\ pc' = IF LoopContinues(port + 1) THEN "wg_add" ELSE "go_closer"
    /\ UNCHANGED <<inputs, callerState, params, chans, progress, err, conns, cpc, openPorts,
                   response, stdout, history>>

\* scanner.go:60-66: go func(){ wg.Wait(); close(results); ... }().
GoCloser ==
    /\ pc = "go_closer"
    /\ cpc' = "wait"
    /\ pc' = "collect"
    /\ UNCHANGED <<inputs, callerState, params, port, chans, progress, workers, openPorts,
                   response, stdout, history>>

\* Mutant of Collect: a drain that does not wait for close(results): the
\* loop ends as soon as the buffer is found empty.
CollectNoWait ==
    /\ pc = "collect"
    /\ \/ /\ Len(results) > 0
          /\ openPorts' = Append(openPorts, Head(results))
          /\ received' = Append(received, Head(results).Port)
          /\ results' = Tail(results)
          /\ pc' = "collect"
       \/ /\ Len(results) = 0
          /\ pc' = "sort"
          /\ UNCHANGED <<openPorts, received, results>>
    /\ UNCHANGED <<inputs, callerState, params, port, resultsClosed, semaphore, wg, progress,
                   workers, cpc, response, stdout, attempts, slotHeld, closes>>

\* scanner.go:69-71: one iteration of `for portInfo := range results`: take
\* the oldest buffered record, or leave the loop when the channel is closed
\* and drained; blocked while it is empty and open.
Collect ==
    /\ pc = "collect"
    /\ \/ /\ Len(results) > 0
          /\ openPorts' = Append(openPorts, Head(results))
          /\ received' = Append(received, Head(results).Port)
          /\ results' = Tail(results)
          /\ pc' = "collect"
       \/ /\ Len(results) = 0
          /\ resultsClosed
          /\ pc' = "sort"
          /\ UNCHANGED <<openPorts, received, results>>
    /\ UNCHANGED <<inputs, callerState, params, port, resultsClosed, semaphore, wg, progress,
                   workers, cpc, response, stdout, attempts, slotHeld, closes>>

\* scanner.go:74-76: sort.Slice(openPorts, by Port).
Sort ==
    /\ pc = "sort"
    /\ openPorts' = SortByPort(openPorts)
    /\ pc' = "scan_return"
    /\ UNCHANGED <<inputs, callerState, params, port, chans, progress, workers, cpc,
                   response, stdout, history>>

\* scanner.go:78,94-108: ScanPorts returns and RunScan builds the response.
RunScanReturn ==
    /\ pc = "scan_return"
    /\ response' = [Target |-> req.Host,
                    StartPort |-> req.StartPort,
                    EndPort |-> req.EndPort,
                    OpenPorts |-> openPorts,
                    ClosedPorts |-> RangeSize(req) - Len(openPorts),
                    TotalPorts |-> RangeSize(req),
                    Error |-> ""]
    /\ pc' = "done"
    /\ UNCHANGED <<inputs, callerState, params, port, chans, progress, workers, cpc,
                   openPorts, stdout, history>>

(* ------------------ worker goroutine of port p ------------------------ *)

\* Mutant of AfterProgress: the test of err inverted.
AfterProgressInverted(e) == IF e # "nil" THEN "send" ELSE "release"

\* Where a worker goes after the progress block (scanner.go:49): to the
\* send when the dial succeeded, else to the deferred calls.
AfterProgress(e) == IF e = "nil" THEN "send" ELSE "release"

\* scanner.go:35-36: the worker calls net.DialTimeout.
DialStart(p) ==
    /\ wpc[p] = "dial"
    /\ attempts' = [attempts EXCEPT ![p] = @ + 1]
    /\ wpc' = [wpc EXCEPT ![p] = "dialing"]
    /\ UNCHANGED <<inputs, callerState, pc, params, port, chans, progress, err, conns, cpc,
                   openPorts, response, stdout, slotHeld, received, closes>>

\* The outcome of the dial to port p: a connection when the port is
\* reachable, an error (refused, timed out) otherwise.
DialOutcome(p) == IF p \in reachable THEN "nil" ELSE "fail"

\* Mutant of DialReturn: the slot given back as soon as DialTimeout returns,
\* ahead of the progress block and the send.
DialReturnReleasing(p) ==
    /\ wpc[p] = "dialing"
    /\ err' = [err EXCEPT ![p] = DialOutcome(p)]
    /\ conns' = IF DialOutcome(p) = "nil" THEN conns \cup {p} ELSE conns
    /\ semaphore > 0
    /\ semaphore' = semaphore - 1
    /\ slotHeld' = slotHeld \ {p}
    /\ wpc' = [wpc EXCEPT ![p] = IF verbose THEN "lock"
                                 ELSE AfterProgress(DialOutcome(p))]
    /\ UNCHANGED <<inputs, callerState, pc, params, port, results, resultsClosed, wg,
                   progress, cpc, openPorts, response, stdout, attempts,
                   received, closes>>

\* Mutant of DialReturn: the connection used before err is tested (a
\* conn.Close() deferred right after the dial), so a failed dial ends in a
\* nil dereference.
DialReturnPanicsOnFail(p) ==
    /\ wpc[p] = "dialing"
    /\ err' = [err EXCEPT ![p] = DialOutcome(p)]
    /\ conns' = IF DialOutcome(p) = "nil" THEN conns \cup {p} ELSE conns
    /\ wpc' = [wpc EXCEPT ![p] = IF DialOutcome(p) = "fail" THEN "panic"
                                 ELSE IF verbose THEN "lock"
                                 ELSE AfterProgress(DialOutcome(p))]
    /\ UNCHANGED <<inputs, callerState, pc, params, port, chans, progress, cpc, openPorts,
                   response, stdout, history>>

\* scanner.go:36-39: DialTimeout returns; the worker goes to the progress
\* block in verbose mode and past it otherwise.
DialReturn(p) ==
    /\ wpc[p] = "dialing"
    /\ err' = [err EXCEPT ![p] = DialOutcome(p)]
    /\ conns' = IF DialOutcome(p) = "nil" THEN conns \cup {p} ELSE conns
    /\ wpc' = [wpc EXCEPT ![p] = IF verbose THEN "lock"
                                 ELSE AfterProgress(DialOutcome(p))]
    /\ UNCHANGED <<inputs, callerState, pc, params, port, chans, progress, cpc, openPorts,
                   response, stdout, history>>

\* Mutant of ProgressLock: the counter updated without waiting for the
\* mutex.
ProgressLockNoWait(p) ==
    /\ wpc[p] = "lock"
    /\ progressMutex' = p
    /\ loaded' = [loaded EXCEPT ![p] = scanProgress]
    /\ wpc' = [wpc EXCEPT ![p] = "update"]
    /\ UNCHANGED <<inputs, callerState, pc, params, port, chans, scanProgress, err, conns,
                   cpc, openPorts, response, stdout, history>>

\* scanner.go:40-41: progressMutex.Lock(), blocking while another worker
\* holds it, and the read of scanProgress that scanProgress++ starts with.
ProgressLock(p) ==
    /\ wpc[p] = "lock"
    /\ progressMutex = 0
    /\ progressMutex' = p
    /\ loaded' = [loaded EXCEPT ![p] = scanProgress]
    /\ wpc' = [wpc EXCEPT ![p] = "update"]
    /\ UNCHANGED <<inputs, callerState, pc, params, port, chans, scanProgress, err, conns,
                   cpc, openPorts, response, stdout, history>>

\* scanner.go:41-45: the write of scanProgress++ and the progress line.
ProgressUpdate(p) ==
    /\ wpc[p] = "update"
    /\ scanProgress' = loaded[p] + 1
    /\ loaded' = [loaded EXCEPT ![p] = 0]
    /\ stdout' = IF ReportsProgress(loaded[p] + 1)
                 THEN Append(stdout, <<"progress", loaded[p] + 1, totalPorts>>)
                 ELSE stdout
    /\ wpc' = [wpc EXCEPT ![p] = "unlock"]
    /\ UNCHANGED <<inputs, callerState, pc, params, port, chans, progressMutex, err, conns,
                   cpc, openPorts, response, history>>

\* scanner.go:46-49: progressMutex.Unlock(), then the test of err.
ProgressUnlock(p) ==
    /\ wpc[p] = "unlock"
    /\ progressMutex' = 0
    /\ wpc' = [wpc EXCEPT ![p] = AfterProgress(err[p])]
    /\ UNCHANGED <<inputs, callerState, pc, params, port, chans, scanProgress, loaded, err,
                   conns, cpc, openPorts, response, stdout, history>>

\* scanner.go:50-54: results <- PortInfo{...}, blocking while the buffer is
\* full; a send on a closed channel panics.
Send(p) ==
    /\ wpc[p] = "send"
    /\ \/ /\ resultsClosed
          /\ wpc' = [wpc EXCEPT ![p] = "panic"]
          /\ UNCHANGED results
       \/ /\ ~resultsClosed
          /\ Len(results) < ResultsCap
          /\ results' = Append(results, PortInfo(p))
          /\ wpc' = [wpc EXCEPT ![p] = "close"]
    /\ UNCHANGED <<inputs, callerState, pc, params, port, resultsClosed, semaphore, wg,
                   progress, err, conns, cpc, openPorts, response, stdout, history>>

\* Mutant of ConnClose: a worker that leaves its connection open.
ConnCloseForgotten(p) ==
    /\ wpc[p] = "close"
    /\ conns' = conns
    /\ wpc' = [wpc EXCEPT ![p] = "release"]
    /\ UNCHANGED <<inputs, callerState, pc, params, port, chans, progress, err, cpc,
                   openPorts, response, stdout, history>>

\* scanner.go:55: conn.Close(), after the send.
ConnClose(p) ==
    /\ wpc[p] = "close"
    /\ conns' = conns \ {p}
    /\ wpc' = [wpc EXCEPT ![p] = "release"]
    /\ UNCHANGED <<inputs, callerState, pc, params, port, chans, progress, err, cpc,
                   openPorts, response, stdout, history>>

\* Mutant of Release: a worker that returns without taking its token back
\* out of the semaphore.
ReleaseForgotten(p) ==
    /\ wpc[p] = "release"
    /\ semaphore' = semaphore
    /\ slotHeld' = slotHeld \ {p}
    /\ wpc' = [wpc EXCEPT ![p] = "wg_done"]
    /\ UNCHANGED <<inputs, callerState, pc, params, port, results, resultsClosed, wg,
                   progress, err, conns, cpc, openPorts, response, stdout,
                   attempts, received, closes>>

\* scanner.go:33: the deferred <-semaphore, run when the worker's function
\* returns (the last defer registered runs first).
Release(p) ==
    /\ wpc[p] = "release"
    /\ semaphore > 0
    /\ semaphore' = semaphore - 1
    /\ slotHeld' = slotHeld \ {p}
    /\ wpc' = [wpc EXCEPT ![p] = "wg_done"]
    /\ UNCHANGED <<inputs, callerState, pc, params, port, results, resultsClosed, wg,
                   progress, err, conns, cpc, openPorts, response, stdout,
                   attempts, received, closes>>

\* scanner.go:32: the deferred wg.Done(), after which the goroutine ends.
WgDone(p) ==
    /\ wpc[p] = "wg_done"
    /\ wg' = wg - 1
    /\ wpc' = [wpc EXCEPT ![p] = "done"]
    /\ UNCHANGED <<inputs, callerState, pc, params, port, results, resultsClosed, semaphore,
                   progress, err, conns, cpc, openPorts, response, stdout, history>>

(* ------------------------- closer goroutine --------------------------- *)

\* Mutant of CloserWait: the closer goes on to close(results) without
\* waiting for the WaitGroup.
CloserWaitSkipped ==
    /\ cpc = "wait"
    /\ cpc' = "close"
    /\ UNCHANGED <<inputs, callerState, pc, params, port, chans, progress, workers,
                   openPorts, response, stdout, history>>

\* scanner.go:61: wg.Wait() returns once the counter is zero.
CloserWait ==
    /\ cpc = "wait"
    /\ wg = 0
    /\ cpc' = "close"
    /\ UNCHANGED <<inputs, callerState, pc, params, port, chans, progress, workers,
                   openPorts, response, stdout, history>>

\* Mutant of CloserClose: the close(results) left out.
CloserCloseForgotten ==
    /\ cpc = "close"
    /\ cpc' = IF verbose THEN "print" ELSE "done"
    /\ UNCHANGED <<inputs, callerState, pc, params, port, chans, progress, workers,
                   openPorts, response, stdout, history>>

\* scanner.go:62-63: close(results).
CloserClose ==
    /\ cpc = "close"
    /\ resultsClosed' = TRUE
    /\ closes' = closes + 1
    /\ cpc' = IF verbose THEN "print" ELSE "done"
    /\ UNCHANGED <<inputs, callerState, pc, params, port, results, semaphore, wg, progress,
                   workers, openPorts, response, stdout, attempts, slotHeld,
                   received>>

\* scanner.go:63-65: the "Scan complete!" line of verbose mode.
CloserPrint ==
    /\ cpc = "print"
    /\ stdout' = Append(stdout, <<"complete">>)
    /\ cpc' = "done"
    /\ UNCHANGED <<inputs, callerState, pc, params, port, chans, progress, workers,
                   openPorts, response, history>>

(* --------------------------- specification ---------------------------- *)

Next ==
    \/ RunScanCall
    \/ ScanStart
    \/ WgAdd
    \/ Acquire
    \/ GoWorker
    \/ GoCloser
    \/ Collect
    \/ Sort
    \/ RunScanReturn
    \/ \E p \in DOMAIN wpc : DialStart(p)
    \/ \E p \in DOMAIN wpc : DialReturn(p)
    \/ \E p \in DOMAIN wpc : ProgressLock(p)
    \/ \E p \in DOMAIN wpc : ProgressUpdate(p)
    \/ \E p \in DOMAIN wpc : ProgressUnlock(p)
    \/ \E p \in DOMAIN wpc : Send(p)
    \/ \E p \in DOMAIN wpc : ConnClose(p)
    \/ \E p \in DOMAIN wpc : Release(p)
    \/ \E p \in DOMAIN wpc : WgDone(p)
    \/ CloserWait
    \/ CloserClose
    \/ CloserPrint

Spec == Init /\ [][Next]_vars

\* The steps of the main goroutine, of port p's worker and of the closer.
Main ==
    \/ RunScanCall \/ ScanStart \/ WgAdd \/ Acquire \/ GoWorker \/ GoCloser
    \/ Collect \/ Sort \/ RunScanReturn

Worker(p) ==
    \/ DialStart(p) \/ DialReturn(p) \/ ProgressLock(p) \/ ProgressUpdate(p)
    \/ ProgressUnlock(p) \/ Send(p) \/ ConnClose(p) \/ Release(p) \/ WgDone(p)

Closer == CloserWait \/ CloserClose \/ CloserPrint

\* The Go scheduler runs every goroutine that stays runnable, and every
\* DialTimeout returns within its timeout: each goroutine is weakly fair.
FairSpec ==
    /\ Spec
    /\ WF_vars(Main)
    /\ \A p \in PortUniverse : WF_vars(Worker(p))
    /\ WF_vars(Closer)

\* The scan of the example: ports 20-25 of a host on which only port 22
\* accepts a connection, with any of the modelled limits, verbose or not.
ExampleInit ==
    /\ req \in { r \in [Host : {IPHost}, StartPort : {20}, EndPort : {25},
                        MaxConcurrent : 0 .. MaxConc,
                        TimeoutMs : {0, SomeTimeoutMs}] :
                   (r.TimeoutMs = 0) = (r.MaxConcurrent = 0) }
    /\ verbose \in BOOLEAN
    /\ reachable = {22}
    /\ pc = "run_scan"
    /\ startPort = 0 /\ endPort = 0 /\ maxConcurrent = 0 /\ timeout = 0
    /\ totalPorts = 0
    /\ port = 0
    /\ results = <<>>
    /\ resultsClosed = FALSE
    /\ semaphore = 0
    /\ wg = 0
    /\ scanProgress = 0
    /\ progressMutex = 0
    /\ loaded = [p \in 20 .. 25 |-> 0]
    /\ wpc = [p \in 20 .. 25 |-> "idle"]
    /\ err = [p \in 20 .. 25 |-> "unset"]
    /\ conns = {}
    /\ cpc = "idle"
    /\ openPorts = <<>>
    /\ response = NoResponse
    /\ stdout = <<>>
    /\ attempts = [p \in 20 .. 25 |-> 0]
    /\ slotHeld = {}
    /\ received = <<>>
    /\ closes = 0
    /\ caller = "none"
    /\ method = "POST" /\ bodyOK = TRUE /\ jsonOutput = FALSE /\ quiet = FALSE
    /\ reply = NoReply
    /\ web = WebOff
    /\ other = NoOther

ExampleSpec == ExampleInit /\ [][Next]_vars

(* --------------------------- calling layer ---------------------------- *)

\* The largest port number ValidateScanRequest accepts.
MaxPortNumber == 65535

\* Largest number of ports in a range scanned through the calling layer.
CallerMaxRange == 2

\* net.ParseIP(h) != nil.
IsIP(h) == h = IPHost

\* Whether h matches ValidateScanRequest's hostname pattern.
MatchesHostname(h) == h \in {UnresolvedHost, ResolvedHost}

\* Whether net.LookupHost(h) succeeds.
Resolves(h) == h \in {IPHost, ResolvedHost}

\* Mutant of ValidateScanRequest: the lower bound of the start port tested
\* against 0 instead of 1.
ValidateScanRequestFromZero(r) ==
    IF r.Host = "" THEN "host required"
    ELSE IF ~IsIP(r.Host) /\ ~MatchesHostname(r.Host)
        THEN "invalid hostname or IP address"
    ELSE IF ~IsIP(r.Host) /\ ~Resolves(r.Host)
        THEN "failed to resolve hostname"
    ELSE IF r.StartPort < 0 \/ r.StartPort > MaxPortNumber
        THEN "start port must be between 1 and 65535"
    ELSE IF r.EndPort < 1 \/ r.EndPort > MaxPortNumber
        THEN "end port must be between 1 and 65535"
    ELSE IF r.StartPort > r.EndPort
        THEN "start port cannot be greater than end port"
    ELSE "nil"

\* part_001:11-38: ValidateScanRequest, as the message of the error it
\* returns, "nil" when it returns none.  The text of the lookup's own error,
\* which the code appends to the third message, is left out.
ValidateScanRequest(r) ==
    IF r.Host = "" THEN "host required"
    ELSE IF ~IsIP(r.Host) /\ ~MatchesHostname(r.Host)
        THEN "invalid hostname or IP address"
    ELSE IF ~IsIP(r.Host) /\ ~Resolves(r.Host)
        THEN "failed to resolve hostname"
    ELSE IF r.StartPort < 1 \/ r.StartPort > MaxPortNumber
        THEN "start port must be between 1 and 65535"
    ELSE IF r.EndPort < 1 \/ r.EndPort > MaxPortNumber
        THEN "end port must be between 1 and 65535"
    ELSE IF r.StartPort > r.EndPort
        THEN "start port cannot be greater than end port"
    ELSE "nil"

\* main.go:1234-1237: the response the /scan handler builds when the
\* validation fails: the error message, every other field at its zero value.
ErrorResponse(e) ==
    [Target |-> "", StartPort |-> 0, EndPort |-> 0, OpenPorts |-> <<>>,
     ClosedPorts |-> 0, TotalPorts |-> 0, Error |-> e]

\* The requests that reach the calling layer: any host, and a port range
\* that is inside the window with at most CallerMaxRange ports, or has a
\* bound outside 1..65535, or is reversed.
CallerRequests ==
    { r \in [Host : Hosts,
             StartPort : {0, FirstPort, FirstPort + 1, MaxPortNumber + 1},
             EndPort : {0, MaxPortNumber + 1} \cup PortUniverse,
             MaxConcurrent : 0 .. MaxConc,
             TimeoutMs : {0, SomeTimeoutMs}] :
        /\ r.EndPort - r.StartPort + 1 <= CallerMaxRange
        /\ r.EndPort \in PortUniverse => r.EndPort <= FirstPort + MaxRange - 1
        /\ (r.TimeoutMs = 0) = (r.MaxConcurrent = 0) }

\* The state in which the CLI's main has parsed its flags, or the server
\* has handed a request to the /scan handler.
CallerInit ==
    /\ caller \in {"cli", "http"}
    /\ req \in CallerRequests
    /\ method \in (IF caller = "http" THEN {"POST", "GET"} ELSE {"POST"})
    /\ bodyOK \in (IF caller = "http" THEN BOOLEAN ELSE {TRUE})
    /\ jsonOutput \in (IF caller = "cli" THEN BOOLEAN ELSE {FALSE})
    /\ quiet \in (IF caller = "cli" THEN BOOLEAN ELSE {FALSE})
    /\ reachable \in (IF ValidateScanRequest(req) = "nil"
                      THEN SUBSET (req.StartPort .. req.EndPort) ELSE {{}})
    /\ verbose = FALSE
    /\ pc = (IF caller = "cli" THEN "cli_main" ELSE "http_scan")
    /\ startPort = 0 /\ endPort = 0 /\ maxConcurrent = 0 /\ timeout = 0
    /\ totalPorts = 0
    /\ port = 0
    /\ results = <<>>
    /\ resultsClosed = FALSE
    /\ semaphore = 0
    /\ wg = 0
    /\ scanProgress = 0
    /\ progressMutex = 0
    /\ loaded = [p \in PortUniverse |-> 0]
    /\ wpc = [p \in PortUniverse |-> "idle"]
    /\ err = [p \in PortUniverse |-> "unset"]
    /\ conns = {}
    /\ cpc = "idle"
    /\ openPorts = <<>>
    /\ response = NoResponse
    /\ stdout = <<>>
    /\ attempts = [p \in PortUniverse |-> 0]
    /\ slotHeld = {}
    /\ received = <<>>
    /\ closes = 0
    /\ reply = NoReply
    /\ web = WebOff
    /\ other = NoOther

core == <<params, port, chans, progress, wpc, err, conns, cpc, openPorts,
          response, history>>

\* main.go:1221-1224: the /scan handler refuses every method but POST.
HttpMethodCheck ==
    /\ pc = "http_scan"
    /\ IF method # "POST"
       THEN /\ reply' = [Kind |-> "http_error", Status |-> 405]
            /\ pc' = "http_done"
       ELSE /\ pc' = "http_decode"
            /\ UNCHANGED reply
    /\ UNCHANGED <<inputs, caller, method, bodyOK, jsonOutput, quiet, web, core, stdout>>

\* main.go:1226-1230: the body is decoded into a ScanRequest.
HttpDecode ==
    /\ pc = "http_decode"
    /\ IF ~bodyOK
       THEN /\ reply' = [Kind |-> "http_error", Status |-> 400]
            /\ pc' = "http_done"
       ELSE /\ pc' = "http_validate"
            /\ UNCHANGED reply
    /\ UNCHANGED <<inputs, caller, method, bodyOK, jsonOutput, quiet, web, core, stdout>>

\* Mutant of HttpValidate: the return after the error response left out,
\* so the handler goes on to RunScan.
HttpValidateNoReturn ==
    /\ pc = "http_validate"
    /\ reply' = IF ValidateScanRequest(req) # "nil"
                THEN [Kind |-> "json", Body |-> ErrorResponse(ValidateScanRequest(req))]
                ELSE reply
    /\ verbose' = FALSE
    /\ pc' = "run_scan"
    /\ UNCHANGED <<req, reachable, other, caller, method, bodyOK, jsonOutput, quiet, web,
                   core, stdout>>

\* main.go:1232-1243: the request is validated; a failure is answered with
\* a response that carries the error, a valid request goes to
\* RunScan(req, false).
HttpValidate ==
    /\ pc = "http_validate"
    /\ IF ValidateScanRequest(req) # "nil"
       THEN /\ reply' = [Kind |-> "json",
                         Body |-> ErrorResponse(ValidateScanRequest(req))]
            /\ pc' = "http_done"
            /\ UNCHANGED verbose
       ELSE /\ verbose' = FALSE
            /\ pc' = "run_scan"
            /\ UNCHANGED reply
    /\ UNCHANGED <<req, reachable, other, caller, method, bodyOK, jsonOutput, quiet, web,
                   core, stdout>>

\* main.go:1245-1246: RunScan's response is encoded as the answer.
HttpRespond ==
    /\ pc = "done"
    /\ caller = "http"
    /\ reply' = [Kind |-> "json", Body |-> response]
    /\ pc' = "http_done"
    /\ UNCHANGED <<inputs, caller, method, bodyOK, jsonOutput, quiet, web, core, stdout>>

\* part_000:28-40: without a host the CLI prints its usage and exits.
CliHostCheck ==
    /\ pc = "cli_main"
    /\ IF req.Host = ""
       THEN /\ reply' = [Kind |-> "exit", Code |-> 1, Message |-> "usage"]
            /\ pc' = "exited"
       ELSE /\ pc' = "cli_validate"
            /\ UNCHANGED reply
    /\ UNCHANGED <<inputs, caller, method, bodyOK, jsonOutput, quiet, web, core, stdout>>

\* Mutant of CliValidate: the validation error is printed but the exit is
\* left out, so main goes on to RunScan.
CliValidateNoExit ==
    /\ pc = "cli_validate"
    /\ reply' = IF ValidateScanRequest(req) # "nil"
                THEN [Kind |-> "exit", Code |-> 1,
                      Message |-> ValidateScanRequest(req)]
                ELSE reply
    /\ verbose' = (~jsonOutput /\ ~quiet)
    /\ pc' = "run_scan"
    /\ UNCHANGED <<req, reachable, other, caller, method, bodyOK, jsonOutput, quiet, web,
                   core, stdout>>

\* Mutant of CliValidate: -quiet is not taken into account for verbose.
CliValidateQuietIgnored ==
    /\ pc = "cli_validate"
    /\ IF ValidateScanRequest(req) # "nil"
       THEN /\ reply' = [Kind |-> "exit", Code |-> 1,
                         Message |-> ValidateScanRequest(req)]
            /\ pc' = "exited"
            /\ UNCHANGED verbose
       ELSE /\ verbose' = ~jsonOutput
            /\ pc' = "run_scan"
            /\ UNCHANGED reply
    /\ UNCHANGED <<req, reachable, other, caller, method, bodyOK, jsonOutput, quiet, web,
                   core, stdout>>

\* part_000:50-57: the request is validated; a failure is printed and ends
\* the process, a valid request goes to RunScan(req, !json && !quiet).
CliValidate ==
    /\ pc = "cli_validate"
    /\ IF ValidateScanRequest(req) # "nil"
       THEN /\ reply' = [Kind |-> "exit", Code |-> 1,
                         Message |-> ValidateScanRequest(req)]
            /\ pc' = "exited"
            /\ UNCHANGED verbose
       ELSE /\ verbose' = (~jsonOutput /\ ~quiet)
            /\ pc' = "run_scan"
            /\ UNCHANGED reply
    /\ UNCHANGED <<req, reachable, other, caller, method, bodyOK, jsonOutput, quiet, web,
                   core, stdout>>

\* part_000:59-79: the CLI prints the response, as JSON or as a table.
CliPrint ==
    /\ pc = "done"
    /\ caller = "cli"
    /\ reply' = [Kind |-> "printed",
                 Format |-> IF jsonOutput THEN "json" ELSE "table",
                 Body |-> response]
    /\ stdout' = Append(stdout, <<"results">>)
    /\ pc' = "cli_done"
    /\ UNCHANGED <<inputs, caller, method, bodyOK, jsonOutput, quiet, web, core>>

CallerNext ==
    \/ Next
    \/ HttpMethodCheck
    \/ HttpDecode
    \/ HttpValidate
    \/ HttpRespond
    \/ CliHostCheck
    \/ CliValidate
    \/ CliPrint

CallerSpec == CallerInit /\ [][CallerNext]_vars

(* ------------------------------ web mode ------------------------------ *)

\* main.go:1280: the capacity of the stop channel.
StopCap == 1

\* Everything but `web`.
scanState == <<inputs, caller, method, bodyOK, jsonOutput, quiet, reply, pc, core>>

\* The process has not exited.
Alive == web.exit = "running"

\* A handler is running: the connection of its request is not idle.
ActiveHandlers ==
    \/ pc \notin {"http_wait", "http_done"}
    \/ web.sreq # "none"

\* server.Shutdown is invoked: the listener is closed, so ListenAndServe
\* returns ErrServerClosed, at once if it had not started to listen.
ListenerAfterShutdown ==
    IF web.listener \in {"starting", "listening"} THEN "closed" ELSE web.listener

\* server.Shutdown returns nil once no connection is active, and the
\* context's error when the deadline passes first.
ShutdownResult == IF ActiveHandlers THEN "deadline" ELSE "nil"

\* The requests sent to /scan in web mode: the window's first port or its
\* first two, scanned one port at a time or with the largest limit.
WebRequests ==
    [Host : {IPHost},
     StartPort : {FirstPort}, EndPort : {FirstPort, FirstPort + 1},
     MaxConcurrent : {1, MaxConc},
     TimeoutMs : {SomeTimeoutMs}]

\* part_000:22-26, main.go:790: main has parsed -web and calls
\* AddWebInterface; a request to /scan is on its way.
WebInit ==
    /\ req \in WebRequests
    /\ verbose = FALSE
    /\ reachable \in SUBSET (req.StartPort .. req.EndPort)
    /\ caller = "http"
    /\ method \in {"POST", "GET"}
    /\ bodyOK \in BOOLEAN
    /\ jsonOutput = FALSE
    /\ quiet = FALSE
    /\ reply = NoReply
    /\ web = [WebOff EXCEPT !.main = "start"]
    /\ other = NoOther
    /\ pc = "http_wait"
    /\ startPort = 0 /\ endPort = 0 /\ maxConcurrent = 0 /\ timeout = 0
    /\ totalPorts = 0
    /\ port = 0
    /\ results = <<>>
    /\ resultsClosed = FALSE
    /\ semaphore = 0
    /\ wg = 0
    /\ scanProgress = 0
    /\ progressMutex = 0
    /\ loaded = [p \in PortUniverse |-> 0]
    /\ wpc = [p \in PortUniverse |-> "idle"]
    /\ err = [p \in PortUniverse |-> "unset"]
    /\ conns = {}
    /\ cpc = "idle"
    /\ openPorts = <<>>
    /\ response = NoResponse
    /\ stdout = <<>>
    /\ attempts = [p \in PortUniverse |-> 0]
    /\ slotHeld = {}
    /\ received = <<>>
    /\ closes = 0

\* main.go:790-1292: AddWebInterface makes the server, registers the
\* handlers, has the signals relayed to the stop channel, starts the
\* listener goroutine and blocks on the stop channel.
WebStart ==
    /\ Alive
    /\ web.main = "start"
    /\ web' = [web EXCEPT !.main = "wait", !.listener = "starting"]
    /\ UNCHANGED <<scanState, stdout>>

\* Mutant of ListenAndServe: a listener goroutine that ends the process
\* with status 1 when the server cannot listen.
ListenAndServeExitsOnError ==
    /\ Alive
    /\ web.listener = "starting"
    /\ \E ok \in BOOLEAN :
          /\ web' = IF ok THEN [web EXCEPT !.listener = "listening"]
                    ELSE [web EXCEPT !.listener = "failed", !.exit = "1"]
          /\ stdout' = stdout \o <<<<"server_running">>>>
                         \o (IF ok THEN <<>> ELSE <<<<"error_starting">>>>)
    /\ UNCHANGED scanState

\* main.go:1284-1289: the listener goroutine prints its line and calls
\* ListenAndServe, which listens or fails.
ListenAndServe ==
    /\ Alive
    /\ web.listener = "starting"
    /\ \E ok \in BOOLEAN :
          /\ web' = [web EXCEPT !.listener = IF ok THEN "listening" ELSE "failed"]
          /\ stdout' = stdout \o <<<<"server_running">>>>
                         \o (IF ok THEN <<>> ELSE <<<<"error_starting">>>>)
    /\ UNCHANGED scanState

\* ScanPorts is running: it has been entered and has not returned.
Scanning == pc \in {"wg_add", "acquire", "go_worker", "go_closer", "collect", "sort"}

\* The ports whose worker goroutine has been started.
Spawned == { p \in DOMAIN wpc : wpc[p] # "idle" }

\* main.go:1281: SIGINT or SIGTERM is raised.  Before signal.Notify it
\* ends the process; after it the signal is relayed to the stop channel,
\* without blocking: it is dropped when the channel is full.
Signal ==
    /\ Alive
    /\ web.main # "off"
    /\ web.signals < MaxSignals
    /\ web' = IF web.main = "start"
              THEN [web EXCEPT !.signals = @ + 1, !.exit = "killed"]
              ELSE IF web.stop < StopCap
              THEN [web EXCEPT !.signals = @ + 1, !.stop = @ + 1,
                               !.delivered = TRUE,
                               !.duringScan = IF web.delivered THEN @ ELSE Scanning,
                               !.spawnedThen = IF web.delivered THEN @ ELSE Spawned]
              ELSE [web EXCEPT !.signals = @ + 1]
    /\ UNCHANGED <<scanState, stdout>>

\* Mutant of MainReceive: the signal is received but server.Shutdown is
\* not called.
MainReceiveNoShutdown ==
    /\ Alive
    /\ web.main = "wait"
    /\ web.stop > 0
    /\ web' = [web EXCEPT !.stop = @ - 1, !.main = "print"]
    /\ stdout' = Append(stdout, <<"shutting_down">>)
    /\ UNCHANGED scanState

\* main.go:1292-1300: <-stop returns; the deadline is set, the line is
\* printed and server.Shutdown(ctx) is called.
MainReceive ==
    /\ Alive
    /\ web.main = "wait"
    /\ web.stop > 0
    /\ web' = [web EXCEPT !.stop = @ - 1, !.main = "in_shutdown",
                          !.shutdowns = @ \cup {"main"},
                          !.listener = ListenerAfterShutdown]
    /\ stdout' = Append(stdout, <<"shutting_down">>)
    /\ UNCHANGED scanState

\* main.go:1300-1302: server.Shutdown returns, at the latest at the
\* deadline.
MainShutdownReturn ==
    /\ Alive
    /\ web.main = "in_shutdown"
    /\ IF ShutdownResult = "nil"
       THEN /\ web' = [web EXCEPT !.main = "print"]
            /\ UNCHANGED stdout
       ELSE /\ web' = [web EXCEPT !.main = "print", !.forced = @ \cup {"main"}]
            /\ stdout' = Append(stdout, <<"forced">>)
    /\ UNCHANGED scanState

\* main.go:1304-1305, part_000:24-25: the last line is printed,
\* AddWebInterface returns and main returns: the process exits with 0.
MainReturn ==
    /\ Alive
    /\ web.main = "print"
    /\ web' = [web EXCEPT !.main = "returned", !.exit = "0"]
    /\ stdout' = Append(stdout, <<"shut_down">>)
    /\ UNCHANGED scanState

\* main.go:1220: a request for /scan reaches the listening server.
ScanArrives ==
    /\ Alive
    /\ web.listener = "listening"
    /\ pc = "http_wait"
    /\ pc' = "http_scan"
    /\ UNCHANGED <<inputs, caller, method, bodyOK, jsonOutput, quiet, reply, web,
                   params, port, chans, progress, wpc, err, conns, cpc, openPorts,
                   response, history, stdout>>

\* main.go:1250: a request for /shutdown reaches the listening server.
ShutdownArrives ==
    /\ Alive
    /\ web.listener = "listening"
    /\ web.sreq = "none"
    /\ web.sreqs < MaxShutdownRequests
    /\ \E m \in {"POST", "GET"} :
          web' = [web EXCEPT !.sreqs = @ + 1, !.smethod = m, !.sreq = "check"]
    /\ UNCHANGED <<scanState, stdout>>

\* Mutant of ShutdownMethodCheck: the method is not looked at.
ShutdownMethodIgnored ==
    /\ Alive
    /\ web.sreq = "check"
    /\ web' = [web EXCEPT !.sreq = "write"]
    /\ UNCHANGED <<scanState, stdout>>

\* main.go:1251-1254: every method but POST is answered 405.
ShutdownMethodCheck ==
    /\ Alive
    /\ web.sreq = "check"
    /\ web' = IF web.smethod # "POST"
              THEN [web EXCEPT !.answers[web.sreqs] = "405", !.sreq = "none"]
              ELSE [web EXCEPT !.sreq = "write"]
    /\ UNCHANGED <<scanState, stdout>>

\* main.go:1257-1258: the shutting_down response is written.
ShutdownWrite ==
    /\ Alive
    /\ web.sreq = "write"
    /\ web' = [web EXCEPT !.answers[web.sreqs] = "shutting_down", !.sreq = "spawn"]
    /\ UNCHANGED <<scanState, stdout>>

\* main.go:1261,1276-1277: the shutdown goroutine is started and the
\* handler returns.
ShutdownGo ==
    /\ Alive
    /\ web.sreq = "spawn"
    /\ web' = [web EXCEPT !.sd[web.sreqs] = "sleep", !.sreq = "none"]
    /\ UNCHANGED <<scanState, stdout>>

\* main.go:1263-1270: after its sleep the goroutine sets the deadline,
\* prints the line and calls server.Shutdown(ctx).
SdShutdownCall(i) ==
    /\ Alive
    /\ web.sd[i] = "sleep"
    /\ web' = [web EXCEPT !.sd[i] = "in_shutdown",
                          !.shutdowns = @ \cup {"endpoint"},
                          !.listener = ListenerAfterShutdown]
    /\ stdout' = Append(stdout, <<"shutting_down">>)
    /\ UNCHANGED scanState

\* main.go:1270-1272: server.Shutdown returns, at the latest at the
\* deadline.
SdShutdownReturn(i) ==
    /\ Alive
    /\ web.sd[i] = "in_shutdown"
    /\ IF ShutdownResult = "nil"
       THEN /\ web' = [web EXCEPT !.sd[i] = "print"]
            /\ UNCHANGED stdout
       ELSE /\ web' = [web EXCEPT !.sd[i] = "print", !.forced = @ \cup {"endpoint"}]
            /\ stdout' = Append(stdout, <<"forced">>)
    /\ UNCHANGED scanState

\* Mutant of SdExit: the goroutine ends without os.Exit.
SdExitForgotten(i) ==
    /\ Alive
    /\ web.sd[i] = "print"
    /\ web' = [web EXCEPT !.sd[i] = "exited"]
    /\ stdout' = Append(stdout, <<"shut_down">>)
    /\ UNCHANGED scanState

\* main.go:1274-1275: the last line is printed and os.Exit(0) ends the
\* process.
SdExit(i) ==
    /\ Alive
    /\ web.sd[i] = "print"
    /\ web' = [web EXCEPT !.sd[i] = "exited", !.exit = "0"]
    /\ stdout' = Append(stdout, <<"shut_down">>)
    /\ UNCHANGED scanState

\* The steps of AddWebInterface's own goroutine.
WebMain == WebStart \/ MainReceive \/ MainShutdownReturn \/ MainReturn

\* The steps of the goroutine the i-th /shutdown request started.
ShutdownGoroutine(i) == SdShutdownCall(i) \/ SdShutdownReturn(i) \/ SdExit(i)

\* The steps of the /scan handler's goroutine and of the scan it runs.
ScanHandler ==
    Alive /\ (Next \/ HttpMethodCheck \/ HttpDecode \/ HttpValidate \/ HttpRespond)

WebNext ==
    \/ ScanHandler
    \/ WebStart
    \/ ListenAndServe
    \/ Signal
    \/ MainReceive
    \/ MainShutdownReturn
    \/ MainReturn
    \/ ScanArrives
    \/ ShutdownArrives
    \/ ShutdownMethodCheck
    \/ ShutdownWrite
    \/ ShutdownGo
    \/ \E i \in 1 .. MaxShutdownRequests : SdShutdownCall(i)
    \/ \E i \in 1 .. MaxShutdownRequests : SdShutdownReturn(i)
    \/ \E i \in 1 .. MaxShutdownRequests : SdExit(i)

WebSpec == WebInit /\ [][WebNext]_vars

\* Every goroutine that can take a step is scheduled, and a call of
\* server.Shutdown returns: AddWebInterface's goroutine and the shutdown
\* goroutines are weakly fair.
WebFairSpec ==
    /\ WebSpec
    /\ WF_vars(WebMain)
    /\ \A i \in 1 .. MaxShutdownRequests : WF_vars(ShutdownGoroutine(i))

(* ------------------- RunScan on unvalidated options ------------------- *)

\* ValidateScanRequest does not look at MaxConcurrent and TimeoutMs, so
\* RunScan may be handed any integers: each is negative, zero or positive.
\* The range is the window's first port or its first two.
DefaultsRequests ==
    [Host : {IPHost},
     StartPort : {FirstPort}, EndPort : {FirstPort, FirstPort + 1},
     MaxConcurrent : (-1) .. MaxConc,
     TimeoutMs : {-1, 0, SomeTimeoutMs}]

\* The state at the call of RunScan, nothing of the core started.
CoreAtRest ==
    /\ pc = "run_scan"
    /\ startPort = 0 /\ endPort = 0 /\ maxConcurrent = 0 /\ timeout = 0
    /\ totalPorts = 0
    /\ port = 0
    /\ results = <<>>
    /\ resultsClosed = FALSE
    /\ semaphore = 0
    /\ wg = 0
    /\ scanProgress = 0
    /\ progressMutex = 0
    /\ loaded = [p \in PortUniverse |-> 0]
    /\ wpc = [p \in PortUniverse |-> "idle"]
    /\ err = [p \in PortUniverse |-> "unset"]
    /\ conns = {}
    /\ cpc = "idle"
    /\ openPorts = <<>>
    /\ response = NoResponse
    /\ stdout = <<>>
    /\ attempts = [p \in PortUniverse |-> 0]
    /\ slotHeld = {}
    /\ received = <<>>
    /\ closes = 0

DefaultsInit ==
    /\ req \in DefaultsRequests
    /\ verbose \in BOOLEAN
    /\ reachable \in SUBSET (req.StartPort .. req.EndPort)
    /\ caller = "none"
    /\ method = "POST"
    /\ bodyOK = TRUE
    /\ jsonOutput = FALSE
    /\ quiet = FALSE
    /\ reply = NoReply
    /\ web = WebOff
    /\ other = NoOther
    /\ CoreAtRest

DefaultsSpec == DefaultsInit /\ [][Next]_vars

(* ------------------- two /scan requests at once ----------------------- *)

\* main.go:1220-1247, scanner.go:82-109, 13-22: what belongs to one /scan
\* handler and its call of RunScan and ScanPorts: the decoded request, the
\* verbose argument, the position of its goroutine, and every local that
\* ScanPorts makes (the channels, the WaitGroup, the progress counter and
\* its mutex) with the goroutines started over them.  The host's ports, the
\* process's output and the server are not part of it.
Locals(i) ==
    [id |-> i, req |-> req, verbose |-> verbose, pc |-> pc,
     startPort |-> startPort, endPort |-> endPort,
     maxConcurrent |-> maxConcurrent, timeout |-> timeout,
     totalPorts |-> totalPorts, port |-> port,
     results |-> results, resultsClosed |-> resultsClosed,
     semaphore |-> semaphore, wg |-> wg,
     scanProgress |-> scanProgress, progressMutex |-> progressMutex,
     loaded |-> loaded, wpc |-> wpc, err |-> err, conns |-> conns, cpc |-> cpc,
     openPorts |-> openPorts, response |-> response,
     attempts |-> attempts, slotHeld |-> slotHeld, received |-> received,
     closes |-> closes, reply |-> reply]

\* main.go:1243: the locals of a handler that has decoded and validated
\* the request r and is about to call RunScan(req, false).
FreshLocals(i, r) ==
    [id |-> i, req |-> r, verbose |-> FALSE, pc |-> "run_scan",
     startPort |-> 0, endPort |-> 0, maxConcurrent |-> 0, timeout |-> 0,
     totalPorts |-> 0, port |-> 0,
     results |-> <<>>, resultsClosed |-> FALSE, semaphore |-> 0, wg |-> 0,
     scanProgress |-> 0, progressMutex |-> 0,
     loaded |-> [p \in PortUniverse |-> 0],
     wpc |-> [p \in PortUniverse |-> "idle"],
     err |-> [p \in PortUniverse |-> "unset"],
     conns |-> {}, cpc |-> "idle",
     openPorts |-> <<>>, response |-> NoResponse,
     attempts |-> [p \in PortUniverse |-> 0], slotHeld |-> {}, received |-> <<>>,
     closes |-> 0, reply |-> NoReply]

\* The handler whose locals the variables hold: the one that is not set
\* aside in other.
Current == 3 - other.id

\* main.go:1284-1289, 1220-1247: the server listens, and the handlers of
\* two requests to /scan, each in its own goroutine, have decoded and
\* validated their requests and are about to call RunScan.
TwoScansInit ==
    /\ req \in WebRequests
    /\ other \in { FreshLocals(2, r) : r \in WebRequests }
    /\ verbose = FALSE
    /\ reachable \in SUBSET (FirstPort .. (FirstPort + 1))
    /\ caller = "http"
    /\ method = "POST"
    /\ bodyOK = TRUE
    /\ jsonOutput = FALSE
    /\ quiet = FALSE
    /\ reply = NoReply
    /\ web = [WebOff EXCEPT !.main = "wait", !.listener = "listening"]
    /\ pc = "run_scan"
    /\ startPort = 0 /\ endPort = 0 /\ maxConcurrent = 0 /\ timeout = 0
    /\ totalPorts = 0
    /\ port = 0
    /\ results = <<>>
    /\ resultsClosed = FALSE
    /\ semaphore = 0
    /\ wg = 0
    /\ scanProgress = 0
    /\ progressMutex = 0
    /\ loaded = [p \in PortUniverse |-> 0]
    /\ wpc = [p \in PortUniverse |-> "idle"]
    /\ err = [p \in PortUniverse |-> "unset"]
    /\ conns = {}
    /\ cpc = "idle"
    /\ openPorts = <<>>
    /\ response = NoResponse
    /\ stdout = <<<<"server_running">>>>
    /\ attempts = [p \in PortUniverse |-> 0]
    /\ slotHeld = {}
    /\ received = <<>>
    /\ closes = 0

\* Mutant of Switch: a limiter made once for the process instead of once
\* per call of ScanPorts, its tokens staying when the processor goes over
\* to the other handler.
SwitchSharingSemaphore ==
    /\ other.id # 0
    /\ other' = Locals(Current)
    /\ req' = other.req /\ verbose' = other.verbose /\ pc' = other.pc
    /\ startPort' = other.startPort /\ endPort' = other.endPort
    /\ maxConcurrent' = other.maxConcurrent /\ timeout' = other.timeout
    /\ totalPorts' = other.totalPorts /\ port' = other.port
    /\ results' = other.results /\ resultsClosed' = other.resultsClosed
    /\ semaphore' = semaphore /\ wg' = other.wg
    /\ scanProgress' = other.scanProgress /\ progressMutex' = other.progressMutex
    /\ loaded' = other.loaded /\ wpc' = other.wpc /\ err' = other.err
    /\ conns' = other.conns /\ cpc' = other.cpc
    /\ openPorts' = other.openPorts /\ response' = other.response
    /\ attempts' = other.attempts /\ slotHeld' = other.slotHeld
    /\ received' = other.received /\ closes' = other.closes
    /\ reply' = other.reply
    /\ UNCHANGED <<reachable, stdout, caller, method, bodyOK, jsonOutput, quiet, web>>

\* main.go:1220, scanner.go:15-22: the server runs each handler in a
\* goroutine of its own and every call of ScanPorts makes its own channels,
\* WaitGroup, counter and mutex.  The processor leaves the goroutines of
\* one handler for those of the other: the variables now hold the other
\* handler's locals, and the locals left are set aside unchanged.
Switch ==
    /\ other.id # 0
    /\ other' = Locals(Current)
    /\ req' = other.req /\ verbose' = other.verbose /\ pc' = other.pc
    /\ startPort' = other.startPort /\ endPort' = other.endPort
    /\ maxConcurrent' = other.maxConcurrent /\ timeout' = other.timeout
    /\ totalPorts' = other.totalPorts /\ port' = other.port
    /\ results' = other.results /\ resultsClosed' = other.resultsClosed
    /\ semaphore' = other.semaphore /\ wg' = other.wg
    /\ scanProgress' = other.scanProgress /\ progressMutex' = other.progressMutex
    /\ loaded' = other.loaded /\ wpc' = other.wpc /\ err' = other.err
    /\ conns' = other.conns /\ cpc' = other.cpc
    /\ openPorts' = other.openPorts /\ response' = other.response
    /\ attempts' = other.attempts /\ slotHeld' = other.slotHeld
    /\ received' = other.received /\ closes' = other.closes
    /\ reply' = other.reply
    /\ UNCHANGED <<reachable, stdout, caller, method, bodyOK, jsonOutput, quiet, web>>

\* main.go:1243-1246: a step of the handler whose goroutines are running:
\* its call of RunScan, then the response it writes.
HandlerStep == other.id # 0 /\ (Next \/ HttpRespond)

TwoScansNext ==
    \/ HandlerStep
    \/ Switch

TwoScansSpec == TwoScansInit /\ [][TwoScansNext]_vars

(* ------------------------------ claims -------------------------------- *)

\* The ports of the request's range.
Range == req.StartPort .. req.EndPort

\* ScanPorts has computed its return value: the main goroutine is at the
\* return statement or past it.
ScanReturned == pc \in {"scan_return", "done"}

\* The ports whose connection attempt is in flight: DialTimeout was called
\* and has not returned.
InFlight == { p \in PortUniverse : wpc[p] = "dialing" }

\* The ports of the records of a sequence.
PortsOf(s) == { s[i].Port : i \in 1 .. Len(s) }

\* C1: in every reachable state the number of connection attempts in flight
\* is at most maxConcurrent.
C1_InFlightAtMostMaxConcurrent ==
    pc # "run_scan" => Cardinality(InFlight) <= maxConcurrent

\* C1 witness: as many attempts in flight as the limit allows, two or more,
\* while the dispatcher waits for a slot for a further port.
C1_Witness ==
    /\ maxConcurrent >= 2
    /\ Cardinality(InFlight) = maxConcurrent
    /\ pc = "acquire"

\* C2: the list ScanPorts returns has a record for port p if and only if p
\* is in the range and the attempt to p succeeded.
C2_ReturnsExactlyTheOpenPorts ==
    ScanReturned =>
        \A p \in PortUniverse :
            (p \in PortsOf(openPorts)) <=> (p \in Range /\ err[p] = "nil")

\* C2 witness: a scan has returned with some port of the range in the list
\* and another port of the range left out.
C2_Witness ==
    /\ ScanReturned
    /\ \E p \in Range : p \in PortsOf(openPorts) /\ p \in reachable
    /\ \E q \in Range : q \notin PortsOf(openPorts) /\ q \notin reachable

\* C3: the returned openPorts is strictly ascending by port, hence without a
\* duplicate port, whatever the order the records were published in.
C3_StrictlyAscending ==
    ScanReturned =>
        \A i \in 1 .. Len(openPorts) - 1 : openPorts[i].Port < openPorts[i + 1].Port

\* C3 witness: a scan has returned whose records were collected out of
\* ascending order.
C3_Witness ==
    /\ ScanReturned
    /\ \E i \in 1 .. Len(received) - 1 : received[i] > received[i + 1]

\* C4: the response RunScan builds satisfies ClosedPorts + len(OpenPorts) ==
\* TotalPorts == EndPort - StartPort + 1, with ClosedPorts >= 0.
C4_CountsAddUp ==
    pc = "done" =>
        /\ response.ClosedPorts + Len(response.OpenPorts) = response.TotalPorts
        /\ response.TotalPorts = response.EndPort - response.StartPort + 1
        /\ response.ClosedPorts >= 0

\* C4 witness: a response with open ports and closed ports.
C4_Witness ==
    /\ pc = "done"
    /\ response.ClosedPorts > 0
    /\ Len(response.OpenPorts) > 0

\* C5: every port of the range gets exactly one connection attempt: never
\* two, none outside the range, and one by the time ScanPorts returns.
C5_ExactlyOneAttemptPerPort ==
    /\ \A p \in PortUniverse : attempts[p] <= 1
    /\ \A p \in PortUniverse \ Range : attempts[p] = 0
    /\ ScanReturned => \A p \in Range : attempts[p] = 1

\* C5 witness: a scan of several ports has returned, an attempt failed, and
\* every port of the range was tried once.
C5_Witness ==
    /\ ScanReturned
    /\ totalPorts >= 2
    /\ \E p \in Range : err[p] = "fail"
    /\ \A p \in Range : attempts[p] = 1

\* The positions in which a worker has yet to dial, is dialing, holds its
\* slot or has yet to publish its record.
Unfinished ==
    {"dial", "dialing", "lock", "update", "unlock", "send", "close", "release"}

\* C6: when ScanPorts returns no worker is still dialing, holding a slot or
\* about to publish a record.
C6_ReturnsAfterAllAttempts ==
    ScanReturned =>
        /\ \A p \in Range : wpc[p] \notin Unfinished \cup {"idle"}
        /\ slotHeld = {}
        /\ results = <<>>

\* C6 witness: ScanPorts is at its return with the workers of a range of
\* several ports, scanned concurrently, all finished.
C6_Witness ==
    /\ pc = "scan_return"
    /\ totalPorts >= 2
    /\ maxConcurrent >= 2
    /\ \A p \in Range : wpc[p] = "done"

\* C7: under fair scheduling, with every dial returning, every worker
\* terminates and RunScan (hence ScanPorts) returns.
C7_Terminates ==
    <>(pc = "done" /\ \A p \in Range : wpc[p] = "done")

\* C7 witness: a scan of several ports through a single slot, for which the
\* dispatcher had to wait, has returned with every worker ended.
C7_Witness ==
    /\ pc = "done"
    /\ maxConcurrent = 1
    /\ totalPorts >= 2
    /\ \A p \in Range : wpc[p] = "done"

\* The positions of a worker's result bookkeeping: the progress-counter
\* update and the publication of the record.
Bookkeeping == {"lock", "update", "unlock", "send"}

\* C8, as stated: a worker has released its slot before any of its result
\* bookkeeping.
C8_ReleasedBeforeBookkeeping ==
    \A p \in PortUniverse : wpc[p] \in Bookkeeping => p \notin slotHeld

\* C8, amended: a worker holds its slot through its attempt and its result
\* bookkeeping, and has released it once it is at wg.Done or ended.
C8_ReleasedAfterBookkeeping ==
    \A p \in PortUniverse :
        /\ wpc[p] \in Unfinished => p \in slotHeld
        /\ wpc[p] \in {"wg_done", "done"} => p \notin slotHeld

\* C8 witness: the dispatcher waits for a slot while the worker holding one
\* has finished its attempt and is updating the progress counter.
C8_Witness ==
    /\ pc = "acquire"
    /\ semaphore = SemaphoreCap
    /\ \E p \in PortUniverse : wpc[p] = "update" /\ p \in slotHeld

\* The records of the reachable ports of lo..hi in ascending order.
RECURSIVE ExpectedOpenPorts(_, _, _)
ExpectedOpenPorts(lo, hi, open) ==
    IF lo > hi THEN <<>>
    ELSE (IF lo \in open THEN <<PortInfo(lo)>> ELSE <<>>)
         \o ExpectedOpenPorts(lo + 1, hi, open)

\* C9: the openPorts sequence ScanPorts returns is determined by the range
\* and the set of reachable ports alone: it is the same for every
\* maxConcurrent and every interleaving.
C9_ResultIndependentOfConcurrency ==
    ScanReturned =>
        openPorts = ExpectedOpenPorts(req.StartPort, req.EndPort, reachable)

\* C9 witness: a scan with a limit strictly between one and the range size
\* has returned two or more open ports.
C9_Witness ==
    /\ ScanReturned
    /\ 1 < maxConcurrent
    /\ maxConcurrent < totalPorts
    /\ Len(openPorts) >= 2

\* C10: with maxConcurrent greater than the range size the dispatcher never
\* finds the semaphore full, and the scan returns every reachable port.
C10_LargeLimitNeverBlocks ==
    (pc \notin {"run_scan", "scan_start"} /\ maxConcurrent > totalPorts) =>
        /\ pc = "acquire" => semaphore < SemaphoreCap
        /\ ScanReturned => PortsOf(openPorts) = reachable

\* C10 witness: with maxConcurrent greater than the range size, the attempts
\* of all ports of a range of several ports are in flight at once.
C10_Witness ==
    /\ maxConcurrent > totalPorts
    /\ totalPorts >= 2
    /\ InFlight = Range


\* The positions of a worker from its spawn to the release of its slot.
Running == Unfinished

\* C11: with maxConcurrent = 1 the scan is sequential: at most one worker is
\* between its spawn and its release, a port is dialled only when the
\* worker of every lower port has released its slot, and the result is the
\* ascending list of the reachable ports of the range.
C11_SequentialWithOneSlot ==
    (pc # "run_scan" /\ maxConcurrent = 1) =>
        /\ Cardinality({ p \in PortUniverse : wpc[p] \in Running }) <= 1
        /\ \A p, q \in PortUniverse :
              (q < p /\ q \in Range /\ wpc[p] \in {"dial", "dialing"})
                  => wpc[q] \in {"wg_done", "done"}
        /\ ScanReturned =>
              openPorts = ExpectedOpenPorts(req.StartPort, req.EndPort, reachable)

\* C11 witness: with maxConcurrent = 1 the last port of a range of several
\* ports is being dialled after a lower port was found open.
C11_Witness ==
    /\ maxConcurrent = 1
    /\ totalPorts >= 2
    /\ wpc[req.EndPort] = "dialing"
    /\ \E q \in Range : q < req.EndPort /\ err[q] = "nil"


\* The positions of a worker inside the critical section of progressMutex.
InProgressSection == {"update", "unlock"}

\* C12: in verbose mode every update of the progress counter sets it to the
\* previous count plus one, and the updates are serialized: at most one
\* worker is inside the critical section, and it is the holder of the mutex.
C12_ProgressCountsUpSerialized ==
    /\ [](/\ Cardinality({ p \in PortUniverse : wpc[p] \in InProgressSection }) <= 1
          /\ \A p \in PortUniverse :
                wpc[p] \in InProgressSection => progressMutex = p)
    /\ [][\A p \in PortUniverse :
             (wpc[p] = "update" /\ wpc'[p] = "unlock")
                 => scanProgress' = scanProgress + 1]_vars

\* C12 witness: a worker is about to write the second or a later count
\* while another worker waits for the mutex.
C12_Witness ==
    /\ verbose
    /\ scanProgress >= 1
    /\ \E p, q \in PortUniverse : wpc[p] = "update" /\ wpc[q] = "lock"


\* The printed progress lines whose completed count equals the total.
FinalReports ==
    { i \in 1 .. Len(stdout) :
        /\ Len(stdout[i]) = 3
        /\ stdout[i][1] = "progress"
        /\ stdout[i][2] = stdout[i][3] }

\* C13: in verbose mode every scan eventually has printed a progress report
\* with completed == total, and exactly one such report.
C13_FinalProgressReport ==
    <>[](verbose => (totalPorts >= 1 /\ Cardinality(FinalReports) = 1))

\* C13 witness: a verbose scan of several ports, none of them reachable, has
\* printed its progress report with completed == total.
C13_Witness ==
    /\ verbose
    /\ totalPorts >= 2
    /\ reachable = {}
    /\ \E i \in FinalReports : stdout[i][2] = totalPorts


\* A record is tagged as the service table prescribes.
WellTagged(rec) ==
    /\ rec.State = "open"
    /\ rec.Port \in DOMAIN CommonPorts => rec.Service = CommonPorts[rec.Port]
    /\ rec.Port \notin DOMAIN CommonPorts => rec.Service = "unknown"

\* C14: every record in openPorts has State "open" and carries the table's
\* service name for its port, or "unknown" when the table has no entry.
C14_RecordsWellTagged ==
    /\ \A i \in 1 .. Len(openPorts) : WellTagged(openPorts[i])
    /\ pc = "done" =>
          \A i \in 1 .. Len(response.OpenPorts) : WellTagged(response.OpenPorts[i])

\* C14 witness: a returned list holds a record of a port of the table and a
\* record of a port absent from it.
C14_Witness ==
    /\ ScanReturned
    /\ \E i, j \in 1 .. Len(openPorts) :
          /\ openPorts[i].Port \in DOMAIN CommonPorts
          /\ openPorts[j].Port \notin DOMAIN CommonPorts
          /\ openPorts[j].Service = "unknown"


C16_SinglePortRange ==
    req.StartPort = req.EndPort =>
        LET p == req.StartPort IN
        /\ attempts[p] <= 1
        /\ \A q \in PortUniverse \ {p} : attempts[q] = 0 /\ wpc[q] = "idle"
        /\ ScanReturned => attempts[p] = 1
        /\ (pc = "done" /\ maxConcurrent = 1 /\ p \in reachable) =>
              /\ Len(response.OpenPorts) = 1
              /\ response.OpenPorts[1].Port = p
              /\ WellTagged(response.OpenPorts[1])
              /\ response.ClosedPorts = 0

\* C16 witness: the scan of one reachable port through one slot has
\* returned its response.
C16_Witness ==
    /\ pc = "done"
    /\ req.StartPort = req.EndPort
    /\ req.MaxConcurrent = 1
    /\ reachable = {req.StartPort}
    /\ Len(response.OpenPorts) = 1


\* C17: a scan of a range in which no port is reachable terminates with a
\* response that has no open port, ClosedPorts == TotalPorts and no error.
C17_NothingReachable ==
    <>(reachable = {} =>
          /\ pc = "done"
          /\ response.OpenPorts = <<>>
          /\ response.ClosedPorts = response.TotalPorts
          /\ response.TotalPorts = req.EndPort - req.StartPort + 1
          /\ response.Error = ""
          /\ \A p \in PortUniverse : wpc[p] # "panic")

\* C17 witness: the scan of a range of several ports, all of them
\* unreachable, has returned a response without open ports.
C17_Witness ==
    /\ pc = "done"
    /\ reachable = {}
    /\ totalPorts >= 2
    /\ response.OpenPorts = <<>>
    /\ \A p \in Range : err[p] = "fail"


\* The positions of a worker after its send.
Published == {"close", "release", "wg_done", "done"}

\* C18: a failed attempt is ordinary: no worker panics, a failed port has
\* no record, a port whose attempt succeeded keeps its record whatever
\* happened to the other ports, and the step in which a dial fails changes
\* nothing of the main goroutine, the channels or the other workers.
C18_FailuresAreIndependent ==
    /\ [](/\ \A p \in PortUniverse : wpc[p] # "panic"
          /\ \A p \in PortUniverse :
                err[p] = "fail" => p \notin PortsOf(results) \cup PortsOf(openPorts)
          /\ \A p \in PortUniverse :
                (err[p] = "nil" /\ wpc[p] \in Published)
                    => p \in PortsOf(results) \cup PortsOf(openPorts)
          /\ ScanReturned => \A p \in Range \cap reachable : p \in PortsOf(openPorts))
    /\ [][\A p \in PortUniverse :
             (err[p] = "unset" /\ err'[p] = "fail") =>
                 /\ pc' = pc
                 /\ results' = results /\ resultsClosed' = resultsClosed
                 /\ openPorts' = openPorts
                 /\ \A q \in PortUniverse \ {p} :
                       wpc'[q] = wpc[q] /\ err'[q] = err[q]]_vars

\* C18 witness: the attempt on one port has failed and a higher port,
\* dialled afterwards through the single slot, has its record in the
\* returned list.
C18_Witness ==
    /\ ScanReturned
    /\ maxConcurrent = 1
    /\ \E p, q \in Range :
          p < q /\ err[p] = "fail" /\ err[q] = "nil" /\ q \in PortsOf(openPorts)


\* How many times port p occurs in a sequence of ports.
Occurrences(s, p) == Cardinality({ i \in 1 .. Len(s) : s[i] = p })

\* The ports of the records still buffered in the results channel.
Buffered == [i \in 1 .. Len(results) |-> results[i].Port]

CoreNotInvoked ==
    /\ pc \notin {"run_scan", "scan_start", "done"}
    /\ response = NoResponse
    /\ totalPorts = 0
    /\ \A p \in DOMAIN attempts : attempts[p] = 0

\* The answer, if any, that carries a response record.
CarriesResponse == reply.Kind \in {"json", "printed"}

\* C20: RunScan never sets the Error field of the response it returns; an
\* answer carries a response with a non-empty Error only when the calling
\* layer built it after ValidateScanRequest failed, without the core having
\* been invoked, and that response carries no scan results.
C20_ErrorOnlyFromValidation ==
    /\ response # NoResponse => response.Error = ""
    /\ (CarriesResponse /\ reply.Body.Error # "") =>
          /\ ValidateScanRequest(req) # "nil"
          /\ reply.Body.Error = ValidateScanRequest(req)
          /\ CoreNotInvoked
          /\ reply.Body.OpenPorts = <<>>
          /\ reply.Body.TotalPorts = 0
          /\ reply.Body.ClosedPorts = 0
    /\ (CarriesResponse /\ reply.Body.Error = "") =>
          /\ ValidateScanRequest(req) = "nil"
          /\ reply.Body = response

\* C20 witness: the /scan handler has answered an invalid request with a
\* response whose Error is set.
C20_Witness ==
    /\ caller = "http"
    /\ pc = "http_done"
    /\ CarriesResponse
    /\ reply.Body.Error # ""


\* The caller accepted the request: ValidateScanRequest returned nil for
\* it and, over HTTP, it came as a POST with a decodable body.
Accepted ==
    /\ ValidateScanRequest(req) = "nil"
    /\ caller = "http" => (method = "POST" /\ bodyOK)

\* The positions of the main goroutine inside RunScan and ScanPorts.
InsideRunScan ==
    {"run_scan", "scan_start", "wg_add", "acquire", "go_worker", "go_closer",
     "collect", "sort", "scan_return", "done"}

\* No connection was attempted and none is open.
NoConnectionAttempt ==
    /\ \A p \in DOMAIN attempts : attempts[p] = 0
    /\ conns = {}
    /\ \A p \in DOMAIN wpc : wpc[p] = "idle"

\* C21: on the CLI and the HTTP path RunScan is entered only for a request
\* that ValidateScanRequest accepted (over HTTP: a POST with a decodable
\* body); a request that is not accepted causes no connection attempt, and
\* an accepted one runs exactly one scan: when the caller has finished,
\* every port of the range was attempted once and the results channel was
\* closed once.
C21_ScanOnlyAfterValidation ==
    /\ pc \in InsideRunScan => Accepted
    /\ ~Accepted => NoConnectionAttempt
    /\ closes <= 1
    /\ (Accepted /\ pc \in {"http_done", "cli_done"}) =>
          /\ closes = 1
          /\ \A p \in DOMAIN attempts :
                attempts[p] = (IF p \in Range THEN 1 ELSE 0)

\* C21 witness: the CLI has printed the result of the scan of an accepted
\* two-port request.
C21_Witness ==
    /\ caller = "cli"
    /\ pc = "cli_done"
    /\ Accepted
    /\ req.EndPort = req.StartPort + 1
    /\ closes = 1


\* C22: RunScan calls ScanPorts with maxConcurrent 100 when the request's
\* MaxConcurrent is not positive and with the request's value otherwise,
\* and with timeout 500 ms when the request's TimeoutMs is not positive and
\* with the request's value otherwise; so ScanPorts never runs with
\* maxConcurrent < 1 or timeout <= 0.
C22_DefaultsApplied ==
    pc # "run_scan" =>
        /\ req.MaxConcurrent <= 0 => maxConcurrent = DefaultMaxConcurrent
        /\ req.MaxConcurrent > 0 => maxConcurrent = req.MaxConcurrent
        /\ req.TimeoutMs <= 0 => timeout = DefaultTimeoutMs
        /\ req.TimeoutMs > 0 => timeout = req.TimeoutMs
        /\ maxConcurrent >= 1
        /\ timeout > 0

\* C22 witness: a scan has finished whose request had a negative timeout
\* and a positive limit.
C22_Witness ==
    /\ pc = "done"
    /\ req.TimeoutMs < 0
    /\ req.MaxConcurrent > 0
    /\ timeout = DefaultTimeoutMs
    /\ maxConcurrent = req.MaxConcurrent


\* C23: once a signal has been delivered while ScanPorts was running, no
\* further attempt is scheduled: the workers started are those that had
\* been started when the signal arrived.
C23_StopsSchedulingOnSignal ==
    (web.delivered /\ web.duringScan) => Spawned \subseteq web.spawnedThen


\* C24: a summary is returned only when the aggregation step has received
\* as many outcomes as there are ports in the range: on any other count the
\* scan aborts instead of returning.
C24_SummaryOnlyOnFullCount ==
    pc = "done" => Len(received) = totalPorts


\* The caller asked for no progress output: the CLI with -quiet or -json,
\* and the /scan handler always.
Silent == caller = "http" \/ (caller = "cli" /\ (jsonOutput \/ quiet))

\* The lines of ScanPorts among the lines printed.
ProgressOutput ==
    { i \in 1 .. Len(stdout) : stdout[i][1] \in {"start", "progress", "complete"} }

\* C25: for the CLI with -quiet or -json and for the /scan handler the scan
\* prints no start, progress or completion line, and no worker locks the
\* mutex or reads or writes the progress counter; with or without verbose
\* the open ports returned are the reachable ports of the range.
C25_SilentScanLeavesProgressAlone ==
    /\ Silent =>
          /\ ProgressOutput = {}
          /\ scanProgress = 0
          /\ progressMutex = 0
          /\ \A p \in DOMAIN wpc :
                wpc[p] \notin {"lock", "update", "unlock"} /\ loaded[p] = 0
    /\ response # NoResponse =>
          response.OpenPorts = ExpectedOpenPorts(req.StartPort, req.EndPort, reachable)

\* C25 witness: the CLI run with -quiet alone has printed the result of a
\* scan of two ports that found an open one.
C25_Witness ==
    /\ caller = "cli"
    /\ quiet /\ ~jsonOutput
    /\ pc = "cli_done"
    /\ totalPorts = 2
    /\ Len(response.OpenPorts) >= 1


\* C26 as stated: once a signal was delivered, the process ends by
\* AddWebInterface returning; so a process that has ended after a signal was
\* delivered has ended that way.
C26_SignalEndsInReturn ==
    (web.delivered /\ ~Alive) => web.main = "returned"

\* C26, amended: in web mode, once a signal has been relayed to the stop
\* channel, server.Shutdown is eventually called and the process eventually
\* ends with status 0, by AddWebInterface returning or by the os.Exit(0) of
\* a /shutdown request's goroutine.
C26_SignalEndsProcess ==
    web.delivered ~>
        /\ web.exit = "0"
        /\ web.shutdowns # {}
        /\ \/ web.main = "returned" /\ "main" \in web.shutdowns
           \/ \E i \in 1 .. MaxShutdownRequests :
                 web.sd[i] = "exited" /\ "endpoint" \in web.shutdowns

\* C26 witness: after a signal AddWebInterface has called server.Shutdown
\* and returned, no /shutdown request having been made.
C26_Witness ==
    /\ web.delivered
    /\ web.main = "returned"
    /\ web.shutdowns = {"main"}
    /\ web.exit = "0"
    /\ web.sreqs = 0

\* C29: a shutdown goroutine exists only for a POST to /shutdown whose
\* shutting_down response was written; a request with another method is
\* answered 405 and leaves the listener, the goroutines and the process as
\* they were; and once a shutdown goroutine exists the process eventually
\* exits with status 0, with or without a signal.
C29_ShutdownEndpoint ==
    /\ [](/\ \A i \in 1 .. MaxShutdownRequests :
                /\ web.sd[i] # "none" => web.answers[i] = "shutting_down"
                /\ web.answers[i] = "405" => web.sd[i] = "none"
          /\ web.sreq \in {"write", "spawn"} => web.smethod = "POST"
          /\ "endpoint" \in web.shutdowns =>
                \E i \in 1 .. MaxShutdownRequests : web.sd[i] # "none")
    /\ [][(web.sreq = "check" /\ web.smethod # "POST" /\ web'.sreq # "check")
              => /\ web'.answers[web.sreqs] = "405"
                 /\ web'.listener = web.listener
                 /\ web'.sd = web.sd
                 /\ web'.shutdowns = web.shutdowns
                 /\ web'.exit = web.exit]_vars
    /\ (\E i \in 1 .. MaxShutdownRequests : web.sd[i] # "none") ~> (web.exit = "0")

\* C29 witness: the process has exited through the goroutine of a POST to
\* /shutdown, no signal having been raised.
C29_Witness ==
    /\ web.signals = 0
    /\ web.exit = "0"
    /\ \E i \in 1 .. MaxShutdownRequests :
          web.sd[i] = "exited" /\ web.answers[i] = "shutting_down"


\* ValidateScanRequest was called and has returned: the caller is past its
\* validation step, which the CLI reaches with a host and the /scan handler
\* with a POST whose body decodes.
ValidationReturned ==
    /\ pc \notin {"cli_main", "cli_validate", "http_scan", "http_decode",
                  "http_validate"}
    /\ caller = "cli" => req.Host # EmptyHost
    /\ caller = "http" => (method = "POST" /\ bodyOK)

\* The error ValidateScanRequest returned, as the caller shows it: the
\* CLI's exit message, the Error of the handler's answer, "nil" when the
\* caller went on to the scan.
ValidationResult ==
    IF reply.Kind = "exit" THEN reply.Message
    ELSE IF reply.Kind = "json" /\ reply.Body.Error # "" THEN reply.Body.Error
    ELSE "nil"

\* The host is an IP literal or a well-formed hostname that resolves.
HostAcceptable == req.Host \in {IPHost, ResolvedHost}

InPortRange(n) == 1 <= n /\ n <= MaxPortNumber

WorkersStepped ==
    { p \in DOMAIN wpc :
        wpc'[p] # wpc[p] \/ err'[p] # err[p] \/ loaded'[p] # loaded[p] }

\* C28: the workers share the limiter, the results channel and the progress
\* counter and nothing of each other's own state, and each is used safely:
\* the limiter and the channel stay within their capacities and change by
\* one token or record per step, a step changes at most one worker's own
\* state, and the progress counter is read and written only by the worker
\* that holds progressMutex, of which there is at most one.
C28_SharedStateDiscipline ==
    /\ [](/\ semaphore <= maxConcurrent
          /\ Len(results) <= totalPorts
          /\ \A p, q \in PortUniverse :
                (wpc[p] \in InProgressSection /\ wpc[q] \in InProgressSection)
                    => (p = q /\ progressMutex = p))
    /\ [][/\ Cardinality(WorkersStepped) <= 1
          /\ semaphore' - semaphore \in {-1, 0, 1}
          /\ Len(results') - Len(results) \in {-1, 0, 1}
          /\ scanProgress' # scanProgress =>
                \E p \in PortUniverse :
                    progressMutex = p /\ progressMutex' = p /\ WorkersStepped = {p}
          /\ \A p \in PortUniverse :
                loaded'[p] # loaded[p] =>
                    (progressMutex' = p \/ progressMutex = p)]_vars

\* C28 witness: in verbose mode one worker holds the mutex after its write
\* while another waits for it and a record is in the channel.
C28_Witness ==
    /\ verbose
    /\ Len(results) >= 1
    /\ \E p, q \in PortUniverse :
          wpc[p] = "unlock" /\ progressMutex = p /\ wpc[q] = "lock"


\* The workers that are about to send their record.
Senders == { p \in DOMAIN wpc : wpc[p] = "send" }

\* C30: the records buffered in the results channel together with those
\* about to be sent never exceed totalPorts, so a worker that reaches its
\* send finds room in the buffer; and this although nothing is received
\* while the dispatch loop runs.
C30_SendNeverBlocks ==
    pc \notin {"run_scan", "scan_start"} =>
        /\ Len(results) + Cardinality(Senders) <= totalPorts
        /\ \A p \in Senders : Len(results) < ResultsCap /\ ~resultsClosed
        /\ pc \in {"wg_add", "acquire", "go_worker", "go_closer"} => received = <<>>

\* C30 witness: while the dispatcher waits for a slot and nothing has been
\* received, a record is buffered and a worker is about to send another.
C30_Witness ==
    /\ pc = "acquire"
    /\ received = <<>>
    /\ Len(results) >= 1
    /\ Senders # {}


\* C31: close(results) runs at most once and only when every port of the
\* range has been dispatched and its worker has finished, its send
\* included; no worker sends on the closed channel; and the closer gets past
\* wg.Wait() only then, the WaitGroup never going below zero.
C31_ClosedOnceAfterAllSends ==
    /\ closes <= 1
    /\ resultsClosed <=> closes = 1
    /\ wg >= 0
    /\ \A p \in DOMAIN wpc : wpc[p] # "panic"
    /\ (cpc \notin {"idle", "wait"} \/ resultsClosed) =>
          /\ pc \notin {"run_scan", "scan_start", "wg_add", "acquire", "go_worker"}
          /\ port = endPort + 1
          /\ \A p \in Range : wpc[p] = "done"
          /\ wg = 0
          /\ Len(results) + Len(received) = Cardinality(Range \cap reachable)

\* C31 witness: the channel has been closed after two workers sent their
\* records, and the collector has not drained it yet.
C31_Witness ==
    /\ resultsClosed
    /\ closes = 1
    /\ Len(results) = 2
    /\ pc = "collect"


\* The positions of a worker that holds an open connection: from the
\* successful return of DialTimeout to its conn.Close().
HoldsConn == {"lock", "update", "unlock", "send", "close"}

\* C32: an open connection belongs to a worker that dialled successfully,
\* has not passed its conn.Close(), so is not yet at its release, and still
\* holds its slot; so the open connections never exceed maxConcurrent and
\* none is open when ScanPorts returns.
C32_ConnectionsClosedBeforeRelease ==
    pc # "run_scan" =>
        /\ \A p \in conns :
              /\ p \in Range
              /\ p \in reachable
              /\ wpc[p] \in HoldsConn
              /\ p \in slotHeld
        /\ Cardinality(conns) <= maxConcurrent
        /\ ScanReturned => conns = {}

\* C32 witness: as many connections are open as the limiter has slots, more
\* than one, and a worker that closed its own has released its slot.
C32_Witness ==
    /\ maxConcurrent > 1
    /\ Cardinality(conns) = maxConcurrent
    /\ \E p \in Range \cap reachable : wpc[p] = "wg_done" /\ p \notin conns

\* The ports for which the dispatcher has acquired a slot: every port below
\* the loop variable, and the loop variable's own between the acquire and
\* the go statement.
Acquired ==
    { p \in Range : p < port \/ (p = port /\ pc = "go_worker") }

\* The ports whose worker has run its deferred <-semaphore.
Released == { p \in Range : wpc[p] \in {"wg_done", "done"} }

\* C33: the tokens in the semaphore are the ports whose slot was acquired
\* and not yet released by their worker; only a port whose slot was acquired
\* is released, and once; and the semaphore is empty when ScanPorts
\* returns.
C33_SemaphoreCountsHeldSlots ==
    pc \notin {"run_scan", "scan_start"} =>
        LET held == Acquired \ Released
        IN  /\ \A p \in Range : wpc[p] \in {"wg_done", "done"} => p \in Acquired
            /\ semaphore = Cardinality(held)
            /\ slotHeld = held
            /\ ScanReturned =>
                  semaphore = 0 /\ \A p \in Range : wpc[p] \in {"wg_done", "done"}

\* C33 witness: two slots were acquired, one of them has been released and
\* the other is still held, the dispatcher being blocked on neither.
C33_Witness ==
    /\ Cardinality(Acquired) = 2
    /\ Cardinality(Released) = 1
    /\ semaphore = 1

\* C34: a worker exists for port p only if a slot was acquired and a worker
\* spawned for every lower port of the range.
C34_AdmittedInAscendingOrder ==
    \A p \in PortUniverse :
        wpc[p] # "idle" =>
            /\ p \in Range
            /\ p < port
            /\ \A q \in startPort .. (p - 1) : wpc[q] # "idle" /\ q < port

\* C34 witness: attempts complete out of order: the worker of a higher port
\* has ended while the attempt for a lower port is still in flight.
C34_Witness ==
    \E p, q \in Range : q < p /\ wpc[p] = "done" /\ wpc[q] = "dialing"

\* The worker goroutines that exist: spawned and not yet past wg.Done().
Goroutines == { p \in PortUniverse : wpc[p] \notin {"idle", "done"} }

\* C35, as stated: the worker goroutines that exist never exceed
\* maxConcurrent.
C35_GoroutinesAtMostMaxConcurrent ==
    pc # "run_scan" => Cardinality(Goroutines) <= maxConcurrent

\* C35, amended: the worker goroutines that have not yet run their deferred
\* <-semaphore never exceed maxConcurrent; those between the release and
\* wg.Done() come on top, the existing goroutines being bounded by the
\* number of ports only.
C35_UnreleasedAtMostMaxConcurrent ==
    pc # "run_scan" =>
        /\ Cardinality({ p \in PortUniverse : wpc[p] \in Unfinished }) <= maxConcurrent
        /\ Cardinality(Goroutines) <= totalPorts

\* C35 witness: more goroutines exist than the limiter has slots, the
\* surplus having released its slot without having reached wg.Done().
C35_Witness ==
    /\ pc # "run_scan"
    /\ Cardinality(Goroutines) > maxConcurrent
    /\ Cardinality({ p \in PortUniverse : wpc[p] \in Unfinished }) = maxConcurrent


\* The positions of the calling goroutine at which ScanPorts has returned:
\* RunScan's return, and the CLI's output after it.
AfterScanPorts == {"scan_return", "done", "cli_done"}

\* The index of the first line of stdout that is the given one, 0 if there
\* is none.
FirstLine(l) ==
    IF \E i \in 1 .. Len(stdout) : stdout[i] = l
    THEN CHOOSE i \in 1 .. Len(stdout) :
             /\ stdout[i] = l
             /\ \A j \in 1 .. (i - 1) : stdout[j] # l
    ELSE 0

\* C37: in verbose mode the "Scan complete!" line has been printed once
\* ScanPorts has returned, and so stands before the caller's result output.
C37_CompleteBeforeReturn ==
    (verbose /\ pc \in AfterScanPorts) =>
        /\ cpc = "done"
        /\ FirstLine(<<"complete">>) > 0
        /\ FirstLine(<<"results">>) > 0 =>
              FirstLine(<<"complete">>) < FirstLine(<<"results">>)


\* C38: when the server failed to start listening the error line has been
\* printed, no request is served, and as long as no signal has been relayed
\* to the stop channel the process is alive with AddWebInterface blocked
\* on <-stop; the process ends only by the return that follows a signal.
C38_FailedListenerWaitsForSignal ==
    web.listener = "failed" =>
        /\ \E i \in 1 .. Len(stdout) : stdout[i] = <<"error_starting">>
        /\ web.sreqs = 0 /\ web.sreq = "none"
        /\ pc = "http_wait"
        /\ ~web.delivered => (web.main = "wait" /\ Alive)
        /\ web.exit \in {"running", "0"}
        /\ web.exit = "0" => (web.delivered /\ web.main = "returned")

\* C38 witness: the server failed to listen, the error has been printed,
\* no signal has arrived and AddWebInterface is blocked on the stop channel.
C38_Witness ==
    /\ web.listener = "failed"
    /\ web.signals = 0
    /\ web.main = "wait"
    /\ web.stop = 0
    /\ Alive
    /\ Len(stdout) > 0 /\ stdout[Len(stdout)] = <<"error_starting">>


\* The locals of handler i, whether its goroutines are the running ones or
\* set aside.
View(i) == IF other.id = i THEN other ELSE Locals(i)

\* The ports of the range of the request of the locals v.
RangeOf(v) == v.req.StartPort .. v.req.EndPort

\* The workers of the locals v that hold a slot: spawned and not yet past
\* their deferred <-semaphore.
UnreleasedOf(v) == { p \in PortUniverse : v.wpc[p] \in Unfinished }

\* The response RunScan gives for the request of the locals v when it runs
\* alone.
AloneResponse(v) ==
    [Target |-> v.req.Host,
     StartPort |-> v.req.StartPort,
     EndPort |-> v.req.EndPort,
     OpenPorts |-> ExpectedOpenPorts(v.req.StartPort, v.req.EndPort, reachable),
     ClosedPorts |-> Cardinality(RangeOf(v) \ reachable),
     TotalPorts |-> Cardinality(RangeOf(v)),
     Error |-> ""]

\* What holds of one of two scans running at once.
ScanUndisturbed(v) ==
    /\ v.pc # "run_scan" =>
          /\ v.maxConcurrent = v.req.MaxConcurrent
          /\ Cardinality({ p \in PortUniverse : v.wpc[p] = "dialing" }) <= v.maxConcurrent
          /\ Cardinality(UnreleasedOf(v)) <= v.maxConcurrent
    /\ v.slotHeld \subseteq RangeOf(v)
    /\ v.semaphore = Cardinality(v.slotHeld)
    /\ v.pc = "acquire" =>
          (v.semaphore < v.maxConcurrent <=> Cardinality(UnreleasedOf(v)) < v.maxConcurrent)
    /\ PortsOf(v.results) \cup PortsOf(v.openPorts) \subseteq RangeOf(v) \cap reachable
    /\ v.wg = Cardinality({ p \in RangeOf(v) : v.wpc[p] \notin {"idle", "done"} })
              + (IF v.pc \in {"acquire", "go_worker"} THEN 1 ELSE 0)
    /\ v.scanProgress = 0 /\ v.progressMutex = 0
    /\ \A p \in PortUniverse :
          /\ v.wpc[p] \notin {"panic", "lock", "update", "unlock"}
          /\ v.wpc[p] # "idle" => p \in RangeOf(v)
          /\ v.attempts[p] <= 1
    /\ v.pc \in {"scan_return", "done", "http_done"} =>
          v.openPorts = ExpectedOpenPorts(v.req.StartPort, v.req.EndPort, reachable)
    /\ v.pc \in {"done", "http_done"} => v.response = AloneResponse(v)
    /\ v.pc = "http_done" => v.reply = [Kind |-> "json", Body |-> AloneResponse(v)]

\* C36: of two scans running at once each has its own limiter, result
\* channel, WaitGroup and progress counter: each keeps its attempts in
\* flight within its own maxConcurrent, its semaphore holds the tokens of
\* its own workers only, so that it waits for a slot only when its own
\* workers hold them all, its channel carries the records of its own range
\* only, and it returns the response it would return alone.
C36_ScansShareNothing ==
    other.id # 0 => (ScanUndisturbed(View(1)) /\ ScanUndisturbed(View(2)))

\* C36 witness: two scans of one slot each have an attempt in flight at the
\* same time, so that two attempts are in flight in the process, each
\* semaphore being full with its own scan's token.
C36_Witness ==
    /\ other.id # 0
    /\ \A i \in {1, 2} :
          /\ View(i).maxConcurrent = 1
          /\ View(i).semaphore = 1
          /\ \E p \in PortUniverse : View(i).wpc[p] = "dialing"

====
